---- MODULE Spec2Model ----
(***************************************************************************)
(* Model of the MechGen -> F0AM converter                                  *)
(* (src/utils/box_model_f0am/fun_reaction_extractor.py).                   *)
(*                                                                         *)
(* Python strings are modelled as sequences of one-character strings, so   *)
(* that split / strip / replace / startswith / regex matching are computed *)
(* character by character, as the interpreter does.                        *)
(***************************************************************************)
EXTENDS Integers, Sequences, FiniteSets, TLC

----------------------------------------------------------------------------
(* Character classes (ASCII subset used by the inputs below).              *)

Digits == {"0", "1", "2", "3", "4", "5", "6", "7", "8", "9"}

Letters ==
  {"A","B","C","D","E","F","G","H","I","J","K","L","M","N","O","P","Q","R",
   "S","T","U","V","W","X","Y","Z",
   "a","b","c","d","e","f","g","h","i","j","k","l","m","n","o","p","q","r",
   "s","t","u","v","w","x","y","z"}

\* str.isspace for the one whitespace character of the inputs
IsSpace(c) == c = " "

\* regex \w
IsWordChar(c) == c \in Letters \cup Digits \cup {"_"}

\* the digit d as a number
DigitVal(c) ==
  CASE c = "0" -> 0 [] c = "1" -> 1 [] c = "2" -> 2 [] c = "3" -> 3
    [] c = "4" -> 4 [] c = "5" -> 5 [] c = "6" -> 6 [] c = "7" -> 7
    [] c = "8" -> 8 [] c = "9" -> 9

DigitChr(d) == <<"0","1","2","3","4","5","6","7","8","9">>[d + 1]

----------------------------------------------------------------------------
(* Python str primitives.                                                  *)

\* s[a:b] with 1-based inclusive bounds; empty when a > b
Slice(s, a, b) == IF a > b THEN <<>> ELSE SubSeq(s, a, b)

\* s.startswith(p)
StartsWith(s, p) == Len(p) <= Len(s) /\ SubSeq(s, 1, Len(p)) = p

\* s.find(sub): 0-based position of the first occurrence, -1 if none
Find(s, sub) ==
  LET Hit(p) == SubSeq(s, p, p + Len(sub) - 1) = sub
      last   == Len(s) - Len(sub) + 1
  IN IF \A p \in 1..last : ~Hit(p) THEN -1
     ELSE (CHOOSE p \in 1..last : Hit(p) /\ \A q \in 1..(p - 1) : ~Hit(q)) - 1

\* sub in s
Contains(s, sub) == Find(s, sub) >= 0

\* s.replace(a, b) for single characters a, b
ReplaceChar(s, a, b) == [k \in 1..Len(s) |-> IF s[k] = a THEN b ELSE s[k]]

\* s.replace(a, '') for a single character a
RemoveChar(s, a) == SelectSeq(s, LAMBDA c : c # a)

\* s.strip()
Strip(s) ==
  LET n == Len(s)
  IN IF \A k \in 1..n : IsSpace(s[k]) THEN <<>>
     ELSE LET lo == CHOOSE k \in 1..n :
                      ~IsSpace(s[k]) /\ \A j \in 1..(k - 1) : IsSpace(s[j])
              hi == CHOOSE k \in 1..n :
                      ~IsSpace(s[k]) /\ \A j \in (k + 1)..n : IsSpace(s[j])
          IN SubSeq(s, lo, hi)

\* s.split(c) for a single-character separator: keeps empty pieces
SplitOn(s, c) ==
  LET n == Len(s)
      RECURSIVE F(_)
      \* the pieces of s[start:]
      F(start) ==
        IF \A k \in start..n : s[k] # c THEN <<Slice(s, start, n)>>
        ELSE LET p == CHOOSE k \in start..n :
                        s[k] = c /\ \A j \in start..(k - 1) : s[j] # c
             IN <<Slice(s, start, p - 1)>> \o F(p + 1)
  IN F(1)

\* s.split(): pieces between whitespace runs, no empty pieces
SplitWS(s) == SelectSeq(SplitOn(s, " "), LAMBDA t : t # <<>>)

\* sep.join(parts) for a single-character separator
Join(parts, sep) ==
  LET RECURSIVE F(_)
      F(k) == IF k > Len(parts) THEN <<>>
              ELSE IF k = Len(parts) THEN parts[k]
              ELSE parts[k] \o <<sep>> \o F(k + 1)
  IN F(1)

\* concatenation of a sequence of strings
Concat(parts) ==
  LET RECURSIVE F(_)
      F(k) == IF k > Len(parts) THEN <<>> ELSE parts[k] \o F(k + 1)
  IN F(1)

\* x in list
InList(x, list) == \E k \in 1..Len(list) : list[k] = x

\* s.isdigit(): non-empty and all digits
IsDigitStr(s) == s # <<>> /\ \A k \in 1..Len(s) : s[k] \in Digits

\* s.replace('.', '', 1): remove the first '.'
RemoveFirstDot(s) ==
  LET Cut(p) == IF p < 0 THEN s ELSE Slice(s, 1, p) \o Slice(s, p + 2, Len(s))
  IN Cut(Find(s, <<".">>))

\* int(s) for a non-empty digit string
IntOf(s) ==
  LET RECURSIVE F(_, _)
      F(k, acc) == IF k > Len(s) THEN acc ELSE F(k + 1, acc * 10 + DigitVal(s[k]))
  IN F(1, 0)

\* str(n) for a natural number n
NatStr(n) ==
  LET RECURSIVE F(_)
      F(m) == IF m < 10 THEN <<DigitChr(m)>> ELSE Append(F(m \div 10), DigitChr(m % 10))
  IN F(n)

----------------------------------------------------------------------------
(* Python float: float(token), repr(float) and the '.4f' rendering of E/R.  *)
(* A float is kept as a decimal: sign, significant digits dig (no leading   *)
(* or trailing zero, empty for zero) and decpt, the value being             *)
(* 0.dig * 10^decpt.  This is what float() and repr() agree on for the      *)
(* short decimal literals of a rate clause (at most 15 significant digits). *)
(* inf / nan / digit-group underscores are not modelled.                    *)

\* digits without leading zeros
StripLeadZeros(d) ==
  LET NZ == {k \in 1..Len(d) : d[k] # "0"}
  IN IF NZ = {} THEN <<>>
     ELSE SubSeq(d, CHOOSE k \in NZ : \A j \in NZ : k <= j, Len(d))

\* digits without trailing zeros
StripTrailZeros(d) ==
  LET NZ == {k \in 1..Len(d) : d[k] # "0"}
  IN IF NZ = {} THEN <<>>
     ELSE SubSeq(d, 1, CHOOSE k \in NZ : \A j \in NZ : k >= j)

\* n copies of the character c
Rep(c, n) == [k \in 1..n |-> c]

NotAFloat == [ok |-> FALSE, neg |-> FALSE, dig |-> <<>>, decpt |-> 0]

\* float(tok) for a token without whitespace; ok = FALSE models ValueError
ParseFloat(tok) ==
  LET \* the float of the digits all = integer part + fraction (no leading
      \* zeros), nfrac of them after the point, times 10^eVal
      Value(neg, all, nfrac, eVal, sig) ==
        [ok |-> TRUE, neg |-> neg, dig |-> sig,
         decpt |-> IF sig = <<>> THEN 0 ELSE Len(all) - nfrac + eVal]
      Digs(neg, all, nfrac, eVal) ==
        Value(neg, all, nfrac, eVal, StripTrailZeros(all))
      \* mparts: the mantissa split at '.', eDig: the exponent digits
      Check(neg, mparts, hasExp, eNeg, eDig) ==
        IF /\ Len(mparts) <= 2
           /\ \A j \in 1..Len(mparts) :
                \A k \in 1..Len(mparts[j]) : mparts[j][k] \in Digits
           /\ \E j \in 1..Len(mparts) : mparts[j] # <<>>
           /\ hasExp => IsDigitStr(eDig)
        THEN Digs(neg, StripLeadZeros(Concat(mparts)),
                  IF Len(mparts) = 2 THEN Len(mparts[2]) ELSE 0,
                  IF eNeg THEN 0 - IntOf(eDig) ELSE IntOf(eDig))
        ELSE NotAFloat
      Expo(neg, mant, hasExp, expo) ==
        Check(neg, SplitOn(mant, "."), hasExp,
              expo # <<>> /\ expo[1] = "-",
              IF expo # <<>> /\ expo[1] \in {"+", "-"} THEN Tail(expo) ELSE expo)
      \* ep: position of the first 'e' or 'E' of body, 0 if none
      Mant(neg, body, ep) ==
        Expo(neg,
             IF ep = 0 THEN body ELSE Slice(body, 1, ep - 1),
             ep # 0,
             IF ep = 0 THEN <<>> ELSE Slice(body, ep + 1, Len(body)))
      Body(neg, body) ==
        Mant(neg, body,
             IF \A k \in 1..Len(body) : body[k] \notin {"e", "E"} THEN 0
             ELSE CHOOSE k \in 1..Len(body) :
                    /\ body[k] \in {"e", "E"}
                    /\ \A j \in 1..(k - 1) : body[j] \notin {"e", "E"})
  IN Body(tok # <<>> /\ tok[1] = "-",
          IF tok # <<>> /\ tok[1] \in {"+", "-"} THEN Tail(tok) ELSE tok)

\* repr(x) of a float, as the f-string {A} renders it
FloatRepr(x) ==
  LET \* exponent of the scientific form, at least two digits
      ExpStr(e) ==
        (IF e < 0 THEN <<"-">> ELSE <<"+">>)
        \o (IF e > -10 /\ e < 10 THEN <<"0">> ELSE <<>>)
        \o NatStr(IF e < 0 THEN 0 - e ELSE e)
      Body(d, n, p) ==
        IF n = 0 THEN <<"0", ".", "0">>
        ELSE IF p > 16 \/ p < -3
          THEN <<d[1]>> \o (IF n > 1 THEN <<".">> \o Slice(d, 2, n) ELSE <<>>)
               \o <<"e">> \o ExpStr(p - 1)
        ELSE IF p <= 0 THEN <<"0", ".">> \o Rep("0", 0 - p) \o d
        ELSE IF p >= n THEN d \o Rep("0", p - n) \o <<".", "0">>
        ELSE Slice(d, 1, p) \o <<".">> \o Slice(d, p + 1, n)
  IN (IF x.neg THEN <<"-">> ELSE <<>>) \o Body(x.dig, Len(x.dig), x.decpt)

\* |R| = 0.001987204258640 = (R_hi * 10^6 + R_lo) * 10^-14; R itself is negative
R_hi == 198720
R_lo == 425864
\* 300 K reference temperature
TREF == 300

\* two-limb naturals <<hi, lo>> = hi * 10^6 + lo, for the long division by |R|
LimbBase == 1000000

LimbMulR(q) ==
  <<q * R_hi + (q * R_lo) \div LimbBase, (q * R_lo) % LimbBase>>

LimbLE(a, b) == a[1] < b[1] \/ (a[1] = b[1] /\ a[2] <= b[2])

LimbSub(a, b) ==
  IF a[2] >= b[2] THEN <<a[1] - b[1], a[2] - b[2]>>
  ELSE <<a[1] - b[1] - 1, a[2] + LimbBase - b[2]>>

LimbShift(r, d) ==
  <<r[1] * 10 + (r[2] * 10 + d) \div LimbBase, (r[2] * 10 + d) % LimbBase>>

\* digit string + 1
IncDigits(q) ==
  LET RECURSIVE F(_)
      F(k) == IF k = 0 THEN <<"1">> \o Rep("0", Len(q))
              ELSE IF q[k] = "9" THEN F(k - 1)
              ELSE Slice(q, 1, k - 1) \o <<DigitChr(DigitVal(q[k]) + 1)>> \o Rep("0", Len(q) - k)
  IN F(Len(q))

\* f"{E / R:.4f}" for the float E: |E / R| * 10^4 = dig * 10^z / (|R| * 10^14),
\* z = 18 + decpt - Len(dig), by long division and round-half-even
FormatEoverR(x) ==
  LET \* the rounded quotient, padded to 5 digits, with the point placed
      Place(sgn, pad) ==
        sgn \o Slice(pad, 1, Len(pad) - 4) \o <<".">>
            \o Slice(pad, Len(pad) - 3, Len(pad))
      Pad(sgn, rq) ==
        Place(sgn, IF Len(rq) < 5 THEN Rep("0", 5 - Len(rq)) \o rq ELSE rq)
      Round(sgn, quo, up) ==
        Pad(sgn, StripLeadZeros(IF up THEN IncDigits(quo) ELSE quo))
      \* round half to even: twice the remainder against |R|; lost says that
      \* nonzero digits of the numerator were cut off
      Half(sgn, quo, rem2, lost) ==
        Round(sgn, quo,
              IF rem2 = <<R_hi, R_lo>>
              THEN lost \/ (quo # <<>> /\ DigitVal(quo[Len(quo)]) % 2 = 1)
              ELSE ~LimbLE(rem2, <<R_hi, R_lo>>))
      Rem(sgn, qr, lost) ==
        Half(sgn, qr[1],
             <<2 * qr[2][1] + (2 * qr[2][2]) \div LimbBase,
               (2 * qr[2][2]) % LimbBase>>,
             lost)
      \* the quotient digit of the shifted remainder r1 is est or est - 1
      Est(r1) == IF r1[1] \div R_hi > 9 THEN 9 ELSE r1[1] \div R_hi
      QuoDigit(r1) ==
        IF LimbLE(LimbMulR(Est(r1)), r1) THEN Est(r1) ELSE Est(r1) - 1
      \* long division of the digits num[k..] with remainder r so far:
      \* <<quotient digits, remainder>>
      RECURSIVE Div(_, _, _, _)
      Emit(num, k, q, r1, qd) ==
        Div(num, k + 1, LimbSub(r1, LimbMulR(qd)), Append(q, DigitChr(qd)))
      Shifted(num, k, q, r1) == Emit(num, k, q, r1, QuoDigit(r1))
      Div(num, k, r, q) ==
        IF k > Len(num) THEN <<q, r>>
        ELSE Shifted(num, k, q, LimbShift(r, DigitVal(num[k])))
      \* the first 11 digits are below |R| * 10^14: they give no quotient digit
      Lead(sgn, num, lost, head) ==
        Rem(sgn,
            Div(num, Len(head) + 1,
                <<IntOf(Slice(head, 1, Len(head) - 6)),
                  IntOf(Slice(head, IF Len(head) > 6 THEN Len(head) - 5 ELSE 1,
                              Len(head)))>>,
                <<>>),
            lost)
      Num(sgn, num, lost) ==
        Lead(sgn, num, lost, Slice(num, 1, IF Len(num) < 11 THEN Len(num) ELSE 11))
      Start(sgn, d, z) ==
        Num(sgn, IF z >= 0 THEN d \o Rep("0", z) ELSE Slice(d, 1, Len(d) + z),
            z < 0 /\ d # <<>>)
      \* E / R with R < 0: negative unless E carries a minus sign
  IN Start(IF x.neg THEN <<>> ELSE <<"-">>, x.dig, 18 + x.decpt - Len(x.dig))

----------------------------------------------------------------------------
(* RateExpressionTranslator: handle_photolysis and format_rate.            *)

\* [^\s]
NonSpace(c) == ~IsSpace(c)

\* [0-9\.eE\-]
YieldChar(c) == c \in Digits \cup {".", "e", "E", "-"}

\* membership of c in the character class of a pattern: "NonSpace" is
\* [^\s], "Yield" is [0-9\.eE\-]
InClass(cls, c) == IF cls = "NonSpace" THEN NonSpace(c) ELSE YieldChar(c)

\* re.search(lit + '([cls]+)', s): the first position where lit is followed
\* by at least one character of the class, and the greedy run after it
\* (group 1); found = FALSE when there is no match
SearchGroup(s, lit, cls) ==
  LET Hit(p) == SubSeq(s, p, p + Len(lit) - 1) = lit /\ InClass(cls, s[p + Len(lit)])
      \* the greedy run of class characters from position a
      Group(a) ==
        SubSeq(s, a, CHOOSE e \in a..Len(s) :
                       /\ \A k \in a..e : InClass(cls, s[k])
                       /\ e = Len(s) \/ ~InClass(cls, s[e + 1]))
  IN IF \A p \in 1..(Len(s) - Len(lit)) : ~Hit(p)
     THEN [found |-> FALSE, group |-> <<>>]
     ELSE [found |-> TRUE,
           group |-> Group(Len(lit)
                           + CHOOSE p \in 1..(Len(s) - Len(lit)) :
                               Hit(p) /\ \A q \in 1..(p - 1) : ~Hit(q))]

PFMarker == <<"P", "F", "=">>
QYMarker == <<"Q", "Y", "=">>
C2CHOabs == <<"C", "2", "C", "H", "O", "a", "b", "s">>
C2CHO    == <<"C", "2", "C", "H", "O">>

\* handle_photolysis with the membership test of line 174 left out
handle_photolysis_AlwaysAppends(value, names) ==
  LET Register(product_name, yield_match) ==
        [ret   |-> IF yield_match.found
                   THEN product_name \o <<" ", "*", " ">> \o yield_match.group
                   ELSE product_name,
         names |-> Append(names, product_name)]
      Alias(hyph, yield_match) ==
        Register(IF hyph = C2CHOabs THEN C2CHO ELSE hyph, yield_match)
      Matched(product_match) ==
        IF product_match.found
        THEN Alias(ReplaceChar(product_match.group, "-", "_"),
                   SearchGroup(value, QYMarker, "Yield"))
        ELSE [ret |-> value, names |-> names]
  IN IF Contains(value, PFMarker)
     THEN Matched(SearchGroup(value, PFMarker, "NonSpace"))
     ELSE [ret |-> value, names |-> names]

\* handle_photolysis(value, names_PF): the returned string and the list
\* names_PF as the call leaves it (names: the parameter names_PF)
handle_photolysis(value, names) ==
  LET Register(product_name, yield_match) ==
        [ret   |-> IF yield_match.found
                   THEN product_name \o <<" ", "*", " ">> \o yield_match.group
                   ELSE product_name,
         names |-> IF InList(product_name, names) THEN names
                   ELSE Append(names, product_name)]
      Alias(hyph, yield_match) ==
        Register(IF hyph = C2CHOabs THEN C2CHO ELSE hyph, yield_match)
      Matched(product_match) ==
        IF product_match.found
        THEN Alias(ReplaceChar(product_match.group, "-", "_"),
                   SearchGroup(value, QYMarker, "Yield"))
        ELSE [ret |-> value, names |-> names]
  IN IF Contains(value, PFMarker)
     THEN Matched(SearchGroup(value, PFMarker, "NonSpace"))
     ELSE [ret |-> value, names |-> names]

\* ' .* exp(' and './T)'
ExpOpen  == <<" ", ".", "*", " ", "e", "x", "p", "(">>
ExpClose == <<".", "/", "T", ")">>
\* ' .* (T./' and ').^'
TrefOpen  == <<" ", ".", "*", " ", "(", "T", ".", "/">>
TrefClose == <<")", ".", "^">>

\* the Arrhenius branch with the three-token form rendered as the two-token one
ArrheniusRate_NoTref(rate_str) ==
  LET Render(rate_parts, A, E) ==
        IF A.ok /\ E.ok
        THEN FloatRepr(A) \o ExpOpen \o FormatEoverR(E) \o ExpClose
        ELSE rate_str
      Parts(rate_parts) ==
        IF Len(rate_parts) \in {2, 3}
        THEN Render(rate_parts, ParseFloat(rate_parts[1]), ParseFloat(rate_parts[2]))
        ELSE rate_str
  IN Parts(SplitWS(rate_str))

\* the Arrhenius branch with the fallbacks returning ' '.join(rate_parts)
ArrheniusRate_Normalised(rate_str) ==
  LET Render(rate_parts, A, E) ==
        IF A.ok /\ E.ok
        THEN FloatRepr(A) \o ExpOpen \o FormatEoverR(E) \o ExpClose
             \o (IF Len(rate_parts) = 3
                 THEN TrefOpen \o NatStr(TREF) \o TrefClose \o rate_parts[3]
                 ELSE <<>>)
        ELSE Join(rate_parts, " ")
      Parts(rate_parts) ==
        IF Len(rate_parts) \in {2, 3}
        THEN Render(rate_parts, ParseFloat(rate_parts[1]), ParseFloat(rate_parts[2]))
        ELSE Join(rate_parts, " ")
  IN Parts(SplitWS(rate_str))

\* the Arrhenius branch of format_rate (the try block and its fallbacks)
ArrheniusRate(rate_str) ==
  LET Render(rate_parts, A, E) ==
        IF A.ok /\ E.ok
        THEN FloatRepr(A) \o ExpOpen \o FormatEoverR(E) \o ExpClose
             \o (IF Len(rate_parts) = 3
                 THEN TrefOpen \o NatStr(TREF) \o TrefClose \o rate_parts[3]
                 ELSE <<>>)
        ELSE rate_str
      Parts(rate_parts) ==
        IF Len(rate_parts) \in {2, 3}
        THEN Render(rate_parts, ParseFloat(rate_parts[1]), ParseFloat(rate_parts[2]))
        ELSE rate_str
  IN Parts(SplitWS(rate_str))

\* format_rate(rate_str, names_PF): the returned string and names_PF after
format_rate(rate_str, names) ==
  LET Rate(ph) ==
        IF ph.ret # rate_str
        THEN [ret |-> <<"J">> \o ph.ret, names |-> ph.names]
        ELSE [ret |-> ArrheniusRate(ph.ret), names |-> ph.names]
  IN Rate(handle_photolysis(rate_str, names))

----------------------------------------------------------------------------
(* ReactionCompiler: one iteration of the loop of format_for_f0am.         *)

HV  == <<"H", "V">>
RAD == <<"R", "A", "D">>
VBS == <<"V", "B", "S">>
RO2 == <<"R", "O", "2">>
RMarker == <<"R", ")">>

\* radical_start_string
RadicalStart(mode, prec) ==
  IF mode = "Single" THEN Append(prec, "r") ELSE RAD

\* ''.join(filter(str.isdigit, s))
DigitsOf(s) == SelectSeq(s, LAMBDA c : c \in Digits)

\* [p.strip() for p in s.split('+')]
SplitPlus(s) ==
  LET Trim(raw) == [k \in 1..Len(raw) |-> Strip(raw[k])]
  IN Trim(SplitOn(s, "+"))

\* a float(...) yield in thousandths; the yields of the inputs have at most
\* three decimals, and sums of them are exact
YieldMilli(x) ==
  LET RECURSIVE Pow10(_)
      Pow10(n) == IF n <= 0 THEN 1 ELSE 10 * Pow10(n - 1)
  IN IF x.dig = <<>> THEN 0 ELSE IntOf(x.dig) * Pow10(3 + x.decpt - Len(x.dig))

\* the float whose value is m thousandths
MilliFloat(m) ==
  LET Value(all, sig) ==
        [ok |-> TRUE, neg |-> FALSE, dig |-> sig,
         decpt |-> IF sig = <<>> THEN 0 ELSE Len(all) - 3]
      Digs(all) == Value(all, StripTrailZeros(all))
  IN Digs(StripLeadZeros(NatStr(m)))

\* one product entry: yield_value and product of the loop body
ProductOf(entry) ==
  LET Of(parts) ==
        IF Len(parts) > 1 /\ IsDigitStr(RemoveFirstDot(parts[1]))
        THEN [yield |-> ParseFloat(parts[1]),
              product |-> ReplaceChar(Join(Tail(parts), " "), "-", "_")]
        ELSE [yield |-> [ok |-> TRUE, neg |-> FALSE, dig |-> <<"1">>, decpt |-> 1],
              product |-> ReplaceChar(entry, "-", "_")]
  IN Of(SplitWS(entry))

\* the reactant part of f_lines
ReactantLines(reactants, radical_start_string) ==
  LET Lines(r) ==
        IF r = HV THEN <<>>
        ELSE <<[kind |-> "reactant", sp |-> r, sign |-> "-", amt |-> <<"1">>]>>
             \o (IF StartsWith(r, radical_start_string)
                 THEN <<[kind |-> "pool", sp |-> RO2, sign |-> "-", amt |-> <<"1">>]>>
                 ELSE <<>>)
  IN Concat([k \in 1..Len(reactants) |-> Lines(reactants[k])])

\* the product part of f_lines, without the closing fRO2 line
ProductLines(product_entries, soa) ==
  LET Lines(pr) ==
        IF Strip(pr.product) # <<>> /\ (soa \/ ~StartsWith(pr.product, VBS))
        THEN <<[kind |-> "product", sp |-> pr.product, sign |-> "+",
                amt |-> FloatRepr(pr.yield)]>>
        ELSE <<>>
  IN Concat([k \in 1..Len(product_entries) |-> Lines(ProductOf(product_entries[k]))])

\* mutation of Ro2Count: every radical product counts 1.0, whatever its yield
Ro2Count_IgnoresYield(product_entries, radical_start_string) ==
  LET Count(pr) ==
        IF Strip(pr.product) # <<>> /\ StartsWith(pr.product, radical_start_string)
        THEN 1000 ELSE 0
      RECURSIVE F(_)
      F(k) == IF k > Len(product_entries) THEN 0
              ELSE Count(ProductOf(product_entries[k])) + F(k + 1)
  IN F(1)

\* ro2_count after the product loop, in thousandths
Ro2Count(product_entries, radical_start_string) ==
  LET Count(pr) ==
        IF Strip(pr.product) # <<>> /\ StartsWith(pr.product, radical_start_string)
        THEN YieldMilli(pr.yield) ELSE 0
      RECURSIVE F(_)
      F(k) == IF k > Len(product_entries) THEN 0
              ELSE Count(ProductOf(product_entries[k])) + F(k + 1)
  IN F(1)

\* the Gstr declarations: position and name of every reactant but HV
GstrOf(reactants) ==
  LET Decl(idxs) == [j \in 1..Len(idxs) |-> [idx |-> idxs[j], name |-> reactants[idxs[j]]]]
  IN Decl(SelectSeq([k \in 1..Len(reactants) |-> k], LAMBDA k : reactants[k] # HV))

NoBlock == [index |-> 0, rnames |-> <<>>, rate |-> <<>>, gstr |-> <<>>, f_lines |-> <<>>]

\* results of one iteration: 'continue', or ValueError leaving the function
SkipRecord(names) == [kind |-> "skip", block |-> NoBlock, names |-> names]
RaiseError(names) == [kind |-> "raise", block |-> NoBlock, names |-> names]

\* the loop body of format_for_f0am after the ';' test, for a record with
\* at least two clauses: kind "skip" (continue), "raise" (ValueError leaves
\* the function) or "emit" (block appended, i incremented); names is
\* names_PF afterwards.  The parameters are gen, precursor, compounds,
\* para_soa, radical_cutoff, reference_reactions, parts, i and names_PF.
CompileRecord(mode, prec, comps, soa, cutoff, refs, parts, idx, names) ==
  LET \* lines 314-365: the block, appended to formatted_reactions
      Block(reaction_eqn, fr, reactants, product_entries, ro2_count) ==
        [kind  |-> "emit",
         block |-> [index   |-> idx,
                    rnames  |-> reaction_eqn,
                    rate    |-> fr.ret,
                    gstr    |-> GstrOf(reactants),
                    f_lines |-> ReactantLines(reactants, RadicalStart(mode, prec))
                                \o ProductLines(product_entries, soa)
                                \o (IF ro2_count > 0
                                    THEN <<[kind |-> "pool", sp |-> RO2, sign |-> "+",
                                            amt |-> FloatRepr(MilliFloat(ro2_count))]>>
                                    ELSE <<>>)],
         names |-> fr.names]
      Sides(reaction_eqn, fr, reactants, product_entries) ==
        Block(reaction_eqn, fr, reactants, product_entries,
              Ro2Count(product_entries, RadicalStart(mode, prec)))
      \* lines 309-311: the unpacking of split('=') needs exactly two parts
      Equation(reaction_eqn, eqn_parts, fr) ==
        IF Len(eqn_parts) # 2 THEN RaiseError(fr.names)
        ELSE Sides(reaction_eqn, fr, SplitPlus(eqn_parts[1]), SplitPlus(eqn_parts[2]))
      \* lines 304-306
      Rate(reaction_info, reaction_eqn, eqn_parts) ==
        Equation(reaction_eqn, eqn_parts,
                 format_rate(Strip(Slice(reaction_info,
                                         Find(reaction_info, RMarker) + 3,
                                         Len(reaction_info))),
                             names))
      \* lines 295-300: with a cutoff and a reactant side that starts with
      \* radical_start_string (applies), int() of the digits of the last '_'
      \* segment of the label
      Cutoff(reaction_info, reaction_eqn, eqn_parts, applies, radical_digits) ==
        IF applies /\ radical_digits = <<>> THEN RaiseError(names)
        ELSE IF applies /\ IntOf(radical_digits) > cutoff THEN SkipRecord(names)
        ELSE Rate(reaction_info, reaction_eqn, eqn_parts)
      LastOf(segs) == segs[Len(segs)]
      \* lines 285-292
      Filters(reaction_info, reaction_eqn, eqn_parts, reactant_part, species_label) ==
        IF reactant_part \in refs THEN SkipRecord(names)
        ELSE IF ~InList(species_label, comps) THEN SkipRecord(names)
        ELSE Cutoff(reaction_info, reaction_eqn, eqn_parts,
                    cutoff # 0 /\ StartsWith(reactant_part, RadicalStart(mode, prec)),
                    DigitsOf(LastOf(SplitOn(species_label, "_"))))
      Label(reaction_info, reaction_eqn, eqn_parts, reactant_part) ==
        Filters(reaction_info, reaction_eqn, eqn_parts, reactant_part,
                SplitOn(reactant_part, " ")[1])
      Reactant(reaction_info, reaction_eqn, eqn_parts) ==
        Label(reaction_info, reaction_eqn, eqn_parts, Strip(eqn_parts[1]))
      \* lines 280-282
      Clauses(reaction_info, reaction_eqn) ==
        Reactant(reaction_info, reaction_eqn, SplitOn(reaction_eqn, "="))
  IN Clauses(Strip(parts[1]), ReplaceChar(Strip(parts[2]), "-", "_"))

\* mutation of ProcessRecord: a record without ';' raises instead of being
\* skipped
ProcessRecord_NoDelimRaises(mode, prec, comps, soa, cutoff, refs, reaction, idx, names) ==
  LET Body(parts) ==
        IF Len(parts) < 2 THEN RaiseError(names)
        ELSE CompileRecord(mode, prec, comps, soa, cutoff, refs, parts, idx, names)
  IN Body(SplitOn(reaction, ";"))

\* the body of the for loop of format_for_f0am for one raw record
ProcessRecord(mode, prec, comps, soa, cutoff, refs, reaction, idx, names) ==
  LET Body(parts) ==
        IF Len(parts) < 2 THEN SkipRecord(names)
        ELSE CompileRecord(mode, prec, comps, soa, cutoff, refs, parts, idx, names)
  IN Body(SplitOn(reaction, ";"))

\* the text of one f_lines entry
FLineText(fl) ==
  <<"f">> \o fl.sp \o <<"(", "i", ")", " ", "=", " ", "f">> \o fl.sp
    \o <<"(", "i", ")", " ", fl.sign, " ">> \o fl.amt \o <<";">>

\* f"{i:03}"
Pad3(n) ==
  LET Pad(t) == IF Len(t) < 3 THEN Rep("0", 3 - Len(t)) \o t ELSE t
  IN Pad(NatStr(n))

\* the string appended to formatted_reactions for a block
BlockText(b) ==
  LET nl     == <<"\n">>
      header == <<"%", " ", " ", " ">> \o NatStr(b.index) \o <<",", " ", "<", "R">>
                \o Pad3(b.index) \o <<">">>
      incr   == <<"i", " ", "=", " ", "i", " ", "+", " ", "1", ";">>
      rn     == <<"R","n","a","m","e","s","{","i","}"," ","="," ","'">> \o b.rnames \o <<"'", ";">>
      rate   == <<"k","(",":",",","i",")"," ","="," ">> \o b.rate \o <<";">>
      gstr   == Concat([k \in 1..Len(b.gstr) |->
                  <<"G","s","t","r","{","i",",">> \o NatStr(b.gstr[k].idx)
                  \o <<"}"," ","="," ","'">> \o b.gstr[k].name \o <<"'",";"," ">>])
      fl     == Join([k \in 1..Len(b.f_lines) |-> FLineText(b.f_lines[k])], "\n")
  IN header \o nl \o incr \o nl \o rn \o nl \o rate \o nl \o gstr \o nl \o fl

----------------------------------------------------------------------------
(* SpeciesExtractor.clean_null_compounds.                                  *)

\* regex \b at offset q of s (between s[q] and s[q + 1], q in 0..Len(s))
Boundary(s, q) ==
  (q >= 1 /\ IsWordChar(s[q])) # (q < Len(s) /\ IsWordChar(s[q + 1]))

\* the alternatives of '|'.join(re.escape(comp) for comp in clist): the
\* names in list order; the join of an empty list is the empty pattern
Alternatives(clist) == IF clist = <<>> THEN << <<>> >> ELSE clist

\* re.findall(r'\b(?:' + alts[1] + '|' + alts[2] + ... + r')\b', s): the
\* scan goes left to right; at an offset the first alternative in list
\* order that matches between two \b wins, and the scan resumes behind the
\* match; after an empty match the next one at the same offset must be
\* non-empty (must_advance)
FindAll(alts, s) ==
  LET MatchAt(j, q, must_advance) ==
        /\ q + Len(alts[j]) <= Len(s)
        /\ SubSeq(s, q + 1, q + Len(alts[j])) = alts[j]
        /\ Boundary(s, q + Len(alts[j]))
        /\ must_advance => alts[j] # <<>>
      RECURSIVE Scan(_, _)
      Taken(q, m) == <<m>> \o Scan(q + Len(m), m = <<>>)
      Try(q, J) ==
        IF J = {} THEN Scan(q + 1, FALSE)
        ELSE Taken(q, alts[CHOOSE j \in J : \A k \in J : j <= k])
      Scan(q, must_advance) ==
        IF q > Len(s) THEN <<>>
        ELSE Try(q, IF Boundary(s, q)
                    THEN {j \in 1..Len(alts) : MatchAt(j, q, must_advance)}
                    ELSE {})
  IN Scan(0, FALSE)

\* mutation of clean_null_compounds: the first compound found is left out
\* of filtered_compounds
clean_null_compounds_LosesFirst(clist, rlist) ==
  LET Rest(sel) == IF sel = <<>> THEN <<>> ELSE Tail(sel)
      Partition(found) ==
        [filtered |-> Rest(SelectSeq(clist, LAMBDA c : c \in found)),
         dropped  |-> SelectSeq(clist, LAMBDA c : c \notin found)]
      Found(matches) == Partition({matches[k] : k \in 1..Len(matches)})
  IN Found(FindAll(Alternatives(clist), Join(rlist, " ")))

\* clean_null_compounds(compound_list, reaction_list): filtered_compounds
\* and dropped_compounds
clean_null_compounds(clist, rlist) ==
  LET Partition(found) ==
        [filtered |-> SelectSeq(clist, LAMBDA c : c \in found),
         dropped  |-> SelectSeq(clist, LAMBDA c : c \notin found)]
      Found(matches) == Partition({matches[k] : k \in 1..Len(matches)})
  IN Found(FindAll(Alternatives(clist), Join(rlist, " ")))

----------------------------------------------------------------------------
(* The functions that read a file.  A file is the list readlines() gives:  *)
(* one string per physical line, each with its closing "\n".               *)

STS == <<".", "S", "T", "S">>
ACT == <<".", "A", "C", "T">>
RXN == <<".", "R", "X", "N">>
RnamesOpen == <<"R", "n", "a", "m", "e", "s", "{">>

\* a line with its "\n" turned into a blank: strip() and split() treat the
\* closing "\n" as the whitespace it is
Blanked(line) == ReplaceChar(line, "\n", " ")

\* lines.index(text + '\n', from - 1) as a 1-based position, 0 when there
\* is no such line (ValueError)
LineIndex(lines, text, from) ==
  LET First(hits) == IF hits = {} THEN 0 ELSE CHOOSE k \in hits : \A j \in hits : k <= j
  IN First({k \in from..Len(lines) : lines[k] = Append(text, "\n")})

\* mutation of extract_species: the test for a leading dot of line 36 is left out
extract_species_KeepsDots(lines, string_start, string_end) ==
  LET LastOf(p) == p[Len(p)]
      Entry(bang) ==
        [Species |-> LastOf(SplitOn(SplitOn(bang[2], "\n")[1], " ")),
         MGName  |-> SplitOn(bang[1], " ")[1]]
      Kind(toks, bang) ==
        IF toks = <<>> THEN "raise"
        ELSE IF toks[1][1] = "!" THEN "skip"
        ELSE IF Len(bang) < 2 THEN "raise"
        ELSE "data"
      FirstOfName(rows) ==
        SelectSeq([k \in 1..Len(rows) |-> k],
                  LAMBDA k : \A j \in 1..(k - 1) : rows[j].Species # rows[k].Species)
      Frame(rows, keep) == [j \in 1..Len(keep) |-> rows[keep[j]]]
      Dedup(rows) == Frame(rows, FirstOfName(rows))
      Data(sec, idxs) ==
        Dedup([j \in 1..Len(idxs) |-> Entry(SplitOn(sec[idxs[j]], "!"))])
      Rows(sec, kinds) ==
        IF \E k \in 1..Len(sec) : kinds[k] = "raise"
        THEN [kind |-> "raise", rows |-> <<>>]
        ELSE [kind |-> "ok",
              rows |-> Data(sec, SelectSeq([k \in 1..Len(sec) |-> k],
                                           LAMBDA k : kinds[k] = "data"))]
      Section(sec) ==
        Rows(sec, [k \in 1..Len(sec) |->
                     Kind(SplitWS(Blanked(sec[k])), SplitOn(sec[k], "!"))])
      Range(first, last) ==
        IF first = 0 \/ last = 0 THEN [kind |-> "raise", rows |-> <<>>]
        ELSE Section(Slice(lines, first + 1, last - 1))
  IN Range(LineIndex(lines, string_start, 1), LineIndex(lines, string_end, 1))

\* extract_species(file_path, string_start, string_end): kind "raise" when
\* lines.index finds no marker (ValueError) or a line of the section has no
\* token or no '!' (IndexError); else the rows of df_species in order
extract_species(lines, string_start, string_end) ==
  LET LastOf(p) == p[Len(p)]
      \* lines 37-38
      Entry(bang) ==
        [Species |-> LastOf(SplitOn(SplitOn(bang[2], "\n")[1], " ")),
         MGName  |-> SplitOn(bang[1], " ")[1]]
      \* line 36, and the subscripts [0] and [1] that can fail
      Kind(toks, bang) ==
        IF toks = <<>> THEN "raise"
        ELSE IF toks[1][1] \in {"!", "."} THEN "skip"
        ELSE IF Len(bang) < 2 THEN "raise"
        ELSE "data"
      \* lines 48-49: dropna finds no missing value among strings;
      \* drop_duplicates keeps the first row of every Species
      FirstOfName(rows) ==
        SelectSeq([k \in 1..Len(rows) |-> k],
                  LAMBDA k : \A j \in 1..(k - 1) : rows[j].Species # rows[k].Species)
      Frame(rows, keep) == [j \in 1..Len(keep) |-> rows[keep[j]]]
      Dedup(rows) == Frame(rows, FirstOfName(rows))
      Data(sec, idxs) ==
        Dedup([j \in 1..Len(idxs) |-> Entry(SplitOn(sec[idxs[j]], "!"))])
      Rows(sec, kinds) ==
        IF \E k \in 1..Len(sec) : kinds[k] = "raise"
        THEN [kind |-> "raise", rows |-> <<>>]
        ELSE [kind |-> "ok",
              rows |-> Data(sec, SelectSeq([k \in 1..Len(sec) |-> k],
                                           LAMBDA k : kinds[k] = "data"))]
      Section(sec) ==
        Rows(sec, [k \in 1..Len(sec) |->
                     Kind(SplitWS(Blanked(sec[k])), SplitOn(sec[k], "!"))])
      \* lines 29-30 and the slice of line 35
      Range(first, last) ==
        IF first = 0 \/ last = 0 THEN [kind |-> "raise", rows |-> <<>>]
        ELSE Section(Slice(lines, first + 1, last - 1))
  IN Range(LineIndex(lines, string_start, 1), LineIndex(lines, string_end, 1))

\* mutation of build_compounds: the filter of lines 75-78 tests the defaults
\* only
build_compounds_KeepsSts(lines, defaults) ==
  LET Names(df) == [k \in 1..Len(df.rows) |-> df.rows[k].MGName]
      Hyphens(total) == [k \in 1..Len(total) |-> ReplaceChar(total[k], "-", "_")]
      Total(sts, act) ==
        [kind |-> "ok",
         compounds_total |->
           Hyphens(defaults
                   \o SelectSeq(act, LAMBDA c : ~InList(c, defaults))
                   \o sts),
         compounds_sts |-> sts]
      Both(df_sts, df_act) ==
        IF df_sts.kind = "raise" \/ df_act.kind = "raise"
        THEN [kind |-> "raise", compounds_total |-> <<>>, compounds_sts |-> <<>>]
        ELSE Total(Names(df_sts), Names(df_act))
  IN Both(extract_species(lines, STS, RXN), extract_species(lines, ACT, RXN))

\* build_compounds(input_file, default_compounds): compounds_total and
\* compounds_sts, or kind "raise" when extract_species raises
build_compounds(lines, defaults) ==
  LET Names(df) == [k \in 1..Len(df.rows) |-> df.rows[k].MGName]
      Hyphens(total) == [k \in 1..Len(total) |-> ReplaceChar(total[k], "-", "_")]
      Total(sts, act) ==
        [kind |-> "ok",
         compounds_total |->
           Hyphens(defaults
                   \o SelectSeq(act, LAMBDA c : ~InList(c, defaults) /\ ~InList(c, sts))
                   \o sts),
         compounds_sts |-> sts]
      Both(df_sts, df_act) ==
        IF df_sts.kind = "raise" \/ df_act.kind = "raise"
        THEN [kind |-> "raise", compounds_total |-> <<>>, compounds_sts |-> <<>>]
        ELSE Total(Names(df_sts), Names(df_act))
  IN Both(extract_species(lines, STS, RXN), extract_species(lines, ACT, RXN))

\* parse_reactions(file_path): the list reactions, or kind "raise" when
\* there is no '.RXN' line (ValueError)
parse_reactions(lines) ==
  LET Flush(reactions, current_reaction) ==
        IF current_reaction # <<>> THEN Append(reactions, current_reaction)
        ELSE reactions
      RECURSIVE Loop(_, _, _, _)
      \* lines 142-148 for the stripped line
      Body(sec, k, reactions, current_reaction, line) ==
        IF StartsWith(line, RMarker)
        THEN Loop(sec, k + 1, Flush(reactions, current_reaction), line)
        ELSE Loop(sec, k + 1, reactions, current_reaction \o <<" ">> \o line)
      Loop(sec, k, reactions, current_reaction) ==
        IF k > Len(sec) THEN Flush(reactions, current_reaction)
        ELSE Body(sec, k, reactions, current_reaction,
                  RemoveChar(Strip(Blanked(sec[k])), "#"))
      \* lines 131-134: without a '.' line the block ends with the file
      Block(rxn, dot) ==
        Loop(Slice(lines, rxn + 1, IF dot = 0 THEN Len(lines) ELSE dot - 1),
             1, <<>>, <<>>)
      Start(rxn) ==
        IF rxn = 0 THEN [kind |-> "raise", reactions |-> <<>>]
        ELSE [kind |-> "ok",
              reactions |-> Block(rxn, LineIndex(lines, <<".">>, rxn + 1))]
  IN Start(LineIndex(lines, RXN, 1))

\* mutation of load_ref_rxns: without the replace of line 239
load_ref_rxns_KeepsHyphens(lines) ==
  LET \* line.find("';", start), start being a 0-based offset
      FindFrom(line, start, rel) == IF rel < 0 THEN -1 ELSE rel + start
      \* line[start:end] for 0-based start >= 0 and end >= -1
      Cut(line, start, end) ==
        Slice(line, start + 1, IF end < 0 THEN Len(line) + end ELSE end)
      Quoted(line, start) ==
        Cut(line, start,
            FindFrom(line, start,
                     Find(Slice(line, start + 1, Len(line)), <<"'", ";">>)))
      Reactant(line) ==
        Strip(Blanked(SplitOn(
          Quoted(line, Find(line, <<"=", " ", "'">>) + 3), "=")[1]))
  IN {Reactant(lines[k]) : k \in {j \in 1..Len(lines) : StartsWith(lines[j], RnamesOpen)}}

\* load_ref_rxns(file_path): the set reactant_equations
load_ref_rxns(lines) ==
  LET \* line.find("';", start), start being a 0-based offset
      FindFrom(line, start, rel) == IF rel < 0 THEN -1 ELSE rel + start
      \* line[start:end] for 0-based start >= 0 and end >= -1
      Cut(line, start, end) ==
        Slice(line, start + 1, IF end < 0 THEN Len(line) + end ELSE end)
      Quoted(line, start) ==
        Cut(line, start,
            FindFrom(line, start,
                     Find(Slice(line, start + 1, Len(line)), <<"'", ";">>)))
      Reactant(line) ==
        Strip(Blanked(SplitOn(ReplaceChar(
          Quoted(line, Find(line, <<"=", " ", "'">>) + 3), "-", "_"), "=")[1]))
  IN {Reactant(lines[k]) : k \in {j \in 1..Len(lines) : StartsWith(lines[j], RnamesOpen)}}

----------------------------------------------------------------------------
(* MechanismWriter.write_mech.                                             *)

NUMBER_COMPOUND == 6

\* NAME_REPLACEMENTS of the driver, in the order of the dict
NAME_REPLACEMENTS ==
  <<[old |-> <<"R", "O", "2">>, new |-> <<"S", "u", "m", "R", "O", "2">>],
    [old |-> <<"R", "C", "O", "3">>, new |-> <<"S", "u", "m", "R", "C", "O", "3">>],
    [old |-> <<"S", "u", "m", "S", "u", "m">>, new |-> <<"S", "u", "m">>],
    [old |-> <<"2", "M", "2", "C", "5", "E", "4", "O">>,
     new |-> <<"T", "M", "2", "C", "5", "E", "4", "O">>],
    [old |-> <<"4", "O", "X", "2", "P", "E", "A", "L">>,
     new |-> <<"F", "O", "X", "2", "P", "E", "A", "L">>],
    [old |-> <<"3", "M", "_", "F", "U", "R", "A", "N">>,
     new |-> <<"M", "3", "F", "U", "R", "A", "N">>],
    [old |-> <<"2", "M", "B", "U", "T", "D", "A", "L">>,
     new |-> <<"M", "2", "B", "U", "T", "D", "A", "L">>]>>

\* TARGET_MINYLD of the driver
MinYld == <<"0", ".", "0", "0", "1">>

\* s.replace(old, new) for a non-empty old: the occurrences are taken from
\* left to right and do not overlap
Replace(s, old, new) ==
  LET n == Len(old)
      RECURSIVE F(_)
      F(p) == IF p > Len(s) THEN <<>>
              ELSE IF p + n - 1 <= Len(s) /\ SubSeq(s, p, p + n - 1) = old
                   THEN new \o F(p + n)
                   ELSE <<s[p]>> \o F(p + 1)
  IN F(1)

\* write_mech(file_handle, compounds_list, reaction_list, name_replacements,
\* target_reactant, target_minyld): the strings handed to file_handle.write,
\* in order
write_mech(clist, rlist, table, target_reactant, target_minyld) ==
  LET \* name_replacements.get(compound, compound)
      Get(c, keys) ==
        IF keys = {} THEN c ELSE table[CHOOSE k \in keys : TRUE].new
      Renamed(c) == Get(c, {k \in 1..Len(table) : table[k].old = c})
      \* "; ".join(f"'{comp}'" for comp in line_compounds)
      Quoted(group) ==
        Concat([k \in 1..Len(group) |->
                  <<"'">> \o group[k] \o <<"'">>
                  \o (IF k < Len(group) THEN <<";", " ">> ELSE <<>>)])
      \* lines 399-404 for the group that starts at offset g
      Line(list, g) ==
        Quoted(Slice(list, g + 1,
                     IF g + NUMBER_COMPOUND < Len(list)
                     THEN g + NUMBER_COMPOUND ELSE Len(list)))
        \o (IF g + NUMBER_COMPOUND >= Len(list)
            THEN <<";", "}", ";", "\n">>
            ELSE <<";", ".", ".", ".", "\n">>)
      \* range(0, len(compounds_list), NUMBER_COMPOUND)
      Species(list) ==
        [j \in 1..((Len(list) + NUMBER_COMPOUND - 1) \div NUMBER_COMPOUND) |->
           Line(list, (j - 1) * NUMBER_COMPOUND)]
      \* lines 410-411: the entries are applied one after the other
      RECURSIVE Apply(_, _)
      Apply(reaction, k) ==
        IF k > Len(table) THEN reaction
        ELSE Apply(Replace(reaction, table[k].old, table[k].new), k + 1)
      Written(list) ==
        <<<<"%", " ", "M", "e", "c", "h", "G", "e", "n", " ", "d", "e", "r", "i", "v",
  "e", "d", " ">>
            \o target_reactant
            \o <<" ", "e", "x", "p", "l", "i", "c", "i", "t", " ", "m", "e", "c", "h", "a",
  "n", "i", "s", "m", "\n">>,
          <<"%", " ", "D", "e", "f", "a", "u", "l", "t", " ", "m", "e", "c", "h", "a",
  "n", "i", "s", "m", " ", "w", "i", "t", "h", " ", "M", "i", "n", "Y", "l",
  "d", "=">>
            \o target_minyld \o <<"\n">>,
          <<"S", "p", "e", "c", "i", "e", "s", "T", "o", "A", "d", "d", " ", "=", " ",
  "{", ".", ".", ".", "\n">>>>
        \o Species(list)
        \o <<<<"\n", "A", "d", "d", "S", "p", "e", "c", "i", "e", "s", "\n", "\n">>,
             <<"%", " ", "R", "e", "a", "c", "t", "i", "o", "n", "s", ":", "\n">>>>
        \o [k \in 1..Len(rlist) |-> Apply(rlist[k], 1) \o <<"\n", "\n">>]
  IN Written([k \in 1..Len(clist) |-> Renamed(clist[k])])

----------------------------------------------------------------------------
(* Inputs of format_for_f0am.                                              *)

ISOPRENE == <<"I","S","O","P","R","E","N","E">>

\* two reactants, Arrhenius rate, a product outside the compound list
\*   R) 1.5E-12 -1.0 ;A + B = C-D
Rec_Valid ==
  <<"R",")"," ","1",".","5","E","-","1","2"," ","-","1",".","0"," ",";","A",
    " ","+"," ","B"," ","="," ","C","-","D">>

\* no ';' between rate and equation
\*   R) 1.0 2.0 A = B
Rec_NoDelim ==
  <<"R",")"," ","1",".","0"," ","2",".","0"," ","A"," ","="," ","B">>

\* equation clause without '='
\*   R) 1 2 ;A
Rec_NoEquals ==
  <<"R",")"," ","1"," ","2"," ",";","A">>

\* first reactant outside the compound list
\*   R) 1 2 ;Z = A
Rec_Undefined ==
  <<"R",")"," ","1"," ","2"," ",";","Z"," ","="," ","A">>

\* photolysis
\*   R) PF=ISOP QY=0.5 ;A + HV = B
Rec_Photo ==
  <<"R",")"," ","P","F","=","I","S","O","P"," ","Q","Y","=","0",".","5"," ",
    ";","A"," ","+"," ","H","V"," ","="," ","B">>

\* Single-mode radical, last segment without digits
\*   R) 1 2 ;ISOPRENEr3_x = A
Rec_Gen3x ==
  <<"R",")"," ","1"," ","2"," ",";","I","S","O","P","R","E","N","E","r","3",
    "_","x"," ","="," ","A">>

\* Single-mode radical, last segment without digits
\*   R) 1 2 ;ISOPRENEr2_x = A
Rec_Gen2x ==
  <<"R",")"," ","1"," ","2"," ",";","I","S","O","P","R","E","N","E","r","2",
    "_","x"," ","="," ","A">>

\* Multi-mode radical of number 3
\*   R) 1 2 3 ;RAD_3 + B = 0.5 RAD_1 + VBS1
Rec_Rad3 ==
  <<"R",")"," ","1"," ","2"," ","3"," ",";","R","A","D","_","3"," ","+"," ",
    "B"," ","="," ","0",".","5"," ","R","A","D","_","1"," ","+"," ","V","B",
    "S","1">>

\* Multi-mode radical of number 1
\*   R) 1 2 ;RAD_1 = 0.5 RAD_3 + 0.25 RAD_1 + A
Rec_Rad1 ==
  <<"R",")"," ","1"," ","2"," ",";","R","A","D","_","1"," ","="," ","0",".",
    "5"," ","R","A","D","_","3"," ","+"," ","0",".","2","5"," ","R","A","D",
    "_","1"," ","+"," ","A">>

\* a reserved-prefix species on both sides
\*   R) 1 2 ;VBS1 + A = B + VBS1
Rec_Vbs ==
  <<"R",")"," ","1"," ","2"," ",";","V","B","S","1"," ","+"," ","A"," ","=",
    " ","B"," ","+"," ","V","B","S","1">>

RecordPool ==
  {Rec_Valid, Rec_NoDelim, Rec_NoEquals, Rec_Undefined, Rec_Photo,
   Rec_Gen3x, Rec_Gen2x, Rec_Rad3, Rec_Rad1, Rec_Vbs}

\* the master compound list of the runs: RO2 A B HV ISOPRENEr3_x ISOPRENEr2_x RAD_3 RAD_1 VBS1
CompoundList ==
  <<<<"R","O","2">>,
    <<"A">>,
    <<"B">>,
    <<"H","V">>,
    <<"I","S","O","P","R","E","N","E","r","3","_","x">>,
    <<"I","S","O","P","R","E","N","E","r","2","_","x">>,
    <<"R","A","D","_","3">>,
    <<"R","A","D","_","1">>,
    <<"V","B","S","1">>>>

\* reactant sides of a baseline mechanism (load_ref_rxns): A + HV
RefSet == {<<"A"," ","+"," ","H","V">>}

\* number of raw records of one run
MaxRecs == 3

\* radical_cutoff: 0 is the default False (no cutoff), 2 a configured cutoff
CutoffValues == {0, 2}

\* all lists of at most n elements of S
SeqsUpTo(S, n) == UNION {[1..k -> S] : k \in 0..n}

----------------------------------------------------------------------------
(* State.                                                                  *)

VARIABLES
  \* format_for_f0am: parameters
  gen, precursor, compounds, reactions, para_soa, radical_cutoff,
  reference_reactions,
  \* format_for_f0am: locals
  pos,                  \* number of records the for loop has consumed
  i,                    \* reaction index counter
  formatted_reactions,  \* the blocks appended so far
  names_PF,             \* photolysis product names
  pc,                   \* "loop", "returned" or "raised" (ValueError)
  outcomes,             \* history: what the loop did with each record
  \* clean_null_compounds: parameters and results of a call, and the
  \* results of a second call on the retained list
  compound_list, reaction_list, filtered_compounds, dropped_compounds,
  refiltered_compounds, redropped_compounds,
  clean_pc,             \* "call", "cleaned" or "recleaned"
  \* format_rate: a sequence of calls that share one names_PF list
  fragment,             \* rate_str of the last call
  returned,             \* what the last call returned
  accumulator,          \* the shared names_PF list
  accumulator_before,   \* the list as it was before the last call
  call_log,             \* rate_str of every call so far
  rate_pc,              \* "ready"
  \* one call of a function that reads a file
  file_fn,              \* "none", or the function that was called
  file_lines,           \* what readlines() gave
  string_start,         \* extract_species: the start marker
  default_compounds,    \* build_compounds: the default list
  file_result,          \* what the function returned
  \* write_mech: parameters, and the strings written to file_handle
  compounds_list, reaction_blocks, name_replacements, written,
  write_pc              \* "open" or "written"

fmtVars == <<gen, precursor, compounds, reactions, para_soa, radical_cutoff,
             reference_reactions, pos, i, formatted_reactions, names_PF, pc,
             outcomes>>

cleanVars == <<compound_list, reaction_list, filtered_compounds,
               dropped_compounds, refiltered_compounds, redropped_compounds,
               clean_pc>>

rateVars == <<fragment, returned, accumulator, accumulator_before, call_log,
              rate_pc>>

fileVars == <<file_fn, file_lines, string_start, default_compounds,
              file_result>>

writeVars == <<compounds_list, reaction_blocks, name_replacements, written,
               write_pc>>

vars == <<fmtVars, cleanVars, rateVars, fileVars, writeVars, fileVars, writeVars>>

\* no call of clean_null_compounds
CleanIdle ==
  /\ compound_list = <<>> /\ reaction_list = <<>>
  /\ filtered_compounds = <<>> /\ dropped_compounds = <<>>
  /\ refiltered_compounds = <<>> /\ redropped_compounds = <<>>
  /\ clean_pc = "idle"

\* no call of format_rate
RateIdle ==
  /\ fragment = <<>> /\ returned = <<>> /\ accumulator = <<>>
  /\ accumulator_before = <<>> /\ call_log = <<>> /\ rate_pc = "idle"

\* no call of a function that reads a file
FileIdle ==
  /\ file_fn = "none" /\ file_lines = <<>> /\ string_start = <<>>
  /\ default_compounds = <<>> /\ file_result = <<>>

\* no call of write_mech
WriteIdle ==
  /\ compounds_list = <<>> /\ reaction_blocks = <<>>
  /\ name_replacements = <<>> /\ written = <<>> /\ write_pc = "open"

----------------------------------------------------------------------------
(* format_for_f0am as a loop over the raw records.                         *)

FmtIdle ==
  /\ gen = "Multi" /\ precursor = ISOPRENE /\ compounds = <<>>
  /\ reactions = <<>> /\ para_soa = FALSE /\ radical_cutoff = 0
  /\ reference_reactions = {}
  /\ pos = 0 /\ i = 1 /\ formatted_reactions = <<>> /\ names_PF = <<>>
  /\ pc = "idle" /\ outcomes = <<>>

\* the call: parameters bound, i = 1, names_PF = [], nothing formatted
FmtInit ==
  /\ gen \in {"Single", "Multi"}
  /\ precursor = ISOPRENE
  /\ compounds = CompoundList
  /\ reactions \in SeqsUpTo(RecordPool, MaxRecs)
  /\ para_soa \in BOOLEAN
  /\ radical_cutoff \in CutoffValues
  \* reference_reactions=None behaves as the empty set
  /\ reference_reactions \in {{}, RefSet}
  /\ pos = 0
  /\ i = 1
  /\ formatted_reactions = <<>>
  /\ names_PF = <<>>
  /\ pc = "loop"
  /\ outcomes = <<>>

\* the accumulator values of the runs: names_PF is [] or ['ISOP']
AccumulatorValues == {<<>>, <<<<"I", "S", "O", "P">>>>}

\* the loop body (ProcessRecord) for every configuration, record, index
\* and accumulator value of the runs, evaluated once
LoopBody ==
  [mode \in {"Single", "Multi"}, soa \in BOOLEAN, cutoff \in CutoffValues,
   refs \in {{}, RefSet}, reaction \in RecordPool, idx \in 1..(MaxRecs + 1),
   names \in AccumulatorValues |->
     ProcessRecord(mode, ISOPRENE, CompoundList, soa, cutoff, refs,
                   reaction, idx, names)]

\* what the loop body does with the next record
Current ==
  LoopBody[gen, para_soa, radical_cutoff, reference_reactions,
           reactions[pos + 1], i, names_PF]

FmtParams ==
  <<gen, precursor, compounds, reactions, para_soa, radical_cutoff,
    reference_reactions>>

\* mutation of LoopSkip: a skipped record consumes an index
LoopSkip_ConsumesIndex ==
  /\ pc = "loop" /\ pos < Len(reactions)
  /\ \E c \in {Current} : c.kind = "skip"
  /\ pos' = pos + 1
  /\ i' = i + 1
  /\ outcomes' = Append(outcomes, "skip")
  /\ UNCHANGED <<FmtParams, cleanVars, rateVars, fileVars, writeVars, formatted_reactions, names_PF, pc>>

\* an iteration that ends in one of the 'continue' statements
LoopSkip ==
  /\ pc = "loop" /\ pos < Len(reactions)
  /\ \E c \in {Current} : c.kind = "skip"
  /\ pos' = pos + 1
  /\ outcomes' = Append(outcomes, "skip")
  /\ UNCHANGED <<FmtParams, cleanVars, rateVars, fileVars, writeVars, i, formatted_reactions, names_PF, pc>>

\* an iteration that appends a block and increments i
LoopEmit ==
  /\ pc = "loop" /\ pos < Len(reactions)
  /\ \E c \in {Current} :
       /\ c.kind = "emit"
       /\ formatted_reactions' = Append(formatted_reactions, c.block)
       /\ names_PF' = c.names
  /\ i' = i + 1
  /\ pos' = pos + 1
  /\ outcomes' = Append(outcomes, "emit")
  /\ UNCHANGED <<FmtParams, cleanVars, rateVars, fileVars, writeVars, pc>>

\* an iteration in which int('') or the unpacking of split('=') raises
\* ValueError: the exception leaves format_for_f0am, nothing is returned
LoopRaise ==
  /\ pc = "loop" /\ pos < Len(reactions)
  /\ \E c \in {Current} :
       /\ c.kind = "raise"
       /\ names_PF' = c.names
  /\ pc' = "raised"
  /\ pos' = pos + 1
  /\ outcomes' = Append(outcomes, "raise")
  /\ UNCHANGED <<FmtParams, cleanVars, rateVars, fileVars, writeVars, i, formatted_reactions>>

\* return formatted_reactions, names_PF
FmtReturn ==
  /\ pc = "loop" /\ pos = Len(reactions)
  /\ pc' = "returned"
  /\ UNCHANGED <<FmtParams, cleanVars, rateVars, fileVars, writeVars, pos, i, formatted_reactions, names_PF, outcomes>>

Init == FmtInit /\ CleanIdle /\ RateIdle /\ FileIdle /\ WriteIdle

Next == LoopSkip \/ LoopEmit \/ LoopRaise \/ FmtReturn

Spec == Init /\ [][Next]_vars

----------------------------------------------------------------------------
(* clean_null_compounds: one call, and a second call on its retained list. *)

\* compound name A
Name_A ==
  <<"A">>

\* compound name B
Name_B ==
  <<"B">>

\* compound name A.B
Name_AdotB ==
  <<"A", ".", "B">>

\* compound name AB
Name_AB ==
  <<"A", "B">>

NamePool == {Name_A, Name_B, Name_AdotB, Name_AB}

\* reaction text A.B
Text_AdotB ==
  <<"A", ".", "B">>

\* reaction text A + B
Text_AplusB ==
  <<"A", " ", "+", " ", "B">>

\* reaction text AB
Text_AB ==
  <<"A", "B">>

\* reaction text fB(i)
Text_fB ==
  <<"f", "B", "(", "i", ")">>

TextPool == {Text_AdotB, Text_AplusB, Text_AB, Text_fB}

\* length of compound_list
MaxCompounds == 3

\* length of reaction_list
MaxTexts == 2

\* the call clean_null_compounds(compound_list, reaction_list) is about to
\* be made
CleanInit ==
  /\ compound_list \in SeqsUpTo(NamePool, MaxCompounds)
  /\ reaction_list \in SeqsUpTo(TextPool, MaxTexts)
  /\ filtered_compounds = <<>> /\ dropped_compounds = <<>>
  /\ refiltered_compounds = <<>> /\ redropped_compounds = <<>>
  /\ clean_pc = "call"

\* filtered, dropped = clean_null_compounds(compound_list, reaction_list)
Clean ==
  /\ clean_pc = "call"
  /\ \E r \in {clean_null_compounds(compound_list, reaction_list)} :
       /\ filtered_compounds' = r.filtered
       /\ dropped_compounds' = r.dropped
  /\ clean_pc' = "cleaned"
  /\ UNCHANGED <<compound_list, reaction_list, refiltered_compounds,
                 redropped_compounds, fmtVars, rateVars, fileVars,
                 writeVars>>

\* clean_null_compounds(filtered_compounds, reaction_list): the second pass
CleanAgain ==
  /\ clean_pc = "cleaned"
  /\ \E r \in {clean_null_compounds(filtered_compounds, reaction_list)} :
       /\ refiltered_compounds' = r.filtered
       /\ redropped_compounds' = r.dropped
  /\ clean_pc' = "recleaned"
  /\ UNCHANGED <<compound_list, reaction_list, filtered_compounds,
                 dropped_compounds, fmtVars, rateVars, fileVars,
                 writeVars>>

InitClean == CleanInit /\ FmtIdle /\ RateIdle /\ FileIdle /\ WriteIdle

NextClean == Clean \/ CleanAgain

SpecClean == InitClean /\ [][NextClean]_vars

----------------------------------------------------------------------------
(* format_rate: calls that share one names_PF list.                        *)

\* photolysis product with a yield: PF=ISOP QY=0.5
Frag_PhotoYield ==
  <<"P", "F", "=", "I", "S", "O", "P", " ", "Q", "Y", "=", "0", ".", "5">>

\* photolysis product without a yield: PF=ISOP
Frag_Photo ==
  <<"P", "F", "=", "I", "S", "O", "P">>

\* the aliased product name: PF=C2CHOabs QY=1e-2
Frag_PhotoAlias ==
  <<"P", "F", "=", "C", "2", "C", "H", "O", "a", "b", "s", " ", "Q", "Y",
    "=", "1", "e", "-", "2">>

\* a product name with a hyphen: PF=A-B
Frag_PhotoHyphen ==
  <<"P", "F", "=", "A", "-", "B">>

\* two numeric tokens: 1.5E-12 -1.0
Frag_Arr2 ==
  <<"1", ".", "5", "E", "-", "1", "2", " ", "-", "1", ".", "0">>

\* three tokens: 1.5E-12 -1.0 2
Frag_Arr3 ==
  <<"1", ".", "5", "E", "-", "1", "2", " ", "-", "1", ".", "0", " ", "2">>

\* three tokens, positive E: 2 0.5 -1.5
Frag_Arr3Neg ==
  <<"2", " ", "0", ".", "5", " ", "-", "1", ".", "5">>

\* one token: abc
Frag_OneToken ==
  <<"a", "b", "c">>

\* two tokens, E not a number, two blanks between them: '1  x'
Frag_BadE ==
  <<"1", " ", " ", "x">>

\* four tokens: 1 2 3 4
Frag_FourTokens ==
  <<"1", " ", "2", " ", "3", " ", "4">>

\* three tokens, A not a number: x 2 3
Frag_BadA ==
  <<"x", " ", "2", " ", "3">>

FragmentPool ==
  {Frag_PhotoYield, Frag_Photo, Frag_PhotoAlias,
   Frag_PhotoHyphen, Frag_Arr2, Frag_Arr3,
   Frag_Arr3Neg, Frag_OneToken, Frag_BadE,
   Frag_FourTokens, Frag_BadA}

\* number of calls of format_rate on the shared list
MaxCalls == 3

RateInit ==
  /\ fragment = <<>> /\ returned = <<>> /\ accumulator = <<>>
  /\ accumulator_before = <<>> /\ call_log = <<>> /\ rate_pc = "ready"

\* format_rate(f, accumulator) has returned r.ret and left the list r.names
RateReturn(f, r) ==
  /\ fragment' = f
  /\ returned' = r.ret
  /\ accumulator_before' = accumulator
  /\ accumulator' = r.names
  /\ call_log' = Append(call_log, f)
  /\ UNCHANGED <<rate_pc, fmtVars, cleanVars, fileVars, writeVars>>

\* a call that returns at line 198: the photolysis form 'J...'
RatePhotolysis ==
  /\ rate_pc = "ready" /\ Len(call_log) < MaxCalls
  /\ \E f \in FragmentPool :
       /\ handle_photolysis(f, accumulator).ret # f
       /\ RateReturn(f, format_rate(f, accumulator))

\* a call that returns at line 210 or 215: the Arrhenius form
RateArrhenius ==
  /\ rate_pc = "ready" /\ Len(call_log) < MaxCalls
  /\ \E f \in FragmentPool :
       /\ handle_photolysis(f, accumulator).ret = f
       /\ \E r \in {format_rate(f, accumulator)} :
            r.ret # f /\ RateReturn(f, r)

\* a call that returns rate_str at line 218 or 220
RateFallback ==
  /\ rate_pc = "ready" /\ Len(call_log) < MaxCalls
  /\ \E f \in FragmentPool :
       /\ handle_photolysis(f, accumulator).ret = f
       /\ \E r \in {format_rate(f, accumulator)} :
            r.ret = f /\ RateReturn(f, r)

InitRate == RateInit /\ FmtIdle /\ CleanIdle /\ FileIdle /\ WriteIdle

NextRate == RatePhotolysis \/ RateArrhenius \/ RateFallback

SpecRate == InitRate /\ [][NextRate]_vars

----------------------------------------------------------------------------
(* One call of a function that reads a file.                               *)

\* lines of a generated species section, of each of the sections .STS and
\* .ACT, of a reaction block and of a baseline file
MaxSection == 4
MaxPart == 2
MaxBlock == 3
MaxRef == 2

\* lines of a species section (extract_species)
SpeciesLinePool ==
  {
    \* 'X1 a ! Alpha': tool id X1, common name Alpha
    <<"X", "1", " ", "a", " ", "!", " ", "A", "l", "p", "h", "a", "\n">>,
    \* 'X2 ! two words Beta': tool id X2, common name Beta
    <<"X", "2", " ", "!", " ", "t", "w", "o", " ", "w", "o", "r", "d", "s",
      " ", "B", "e", "t", "a", "\n">>,
    \* 'X9 ! Alpha': the common name of X1 again
    <<"X", "9", " ", "!", " ", "A", "l", "p", "h", "a", "\n">>,
    \* 'X7 ! ': the text after '!' is a blank
    <<"X", "7", " ", "!", " ", "\n">>,
    \* '! note': a comment
    <<"!", " ", "n", "o", "t", "e", "\n">>,
    \* '. cont': a continuation
    <<".", " ", "c", "o", "n", "t", "\n">>,
    \* '': an empty line
    <<"\n">>
  }

\* data lines of the .STS and .ACT sections (build_compounds)
BuildLinePool ==
  {
    \* 'X1 ! Alpha'
    <<"X", "1", " ", "!", " ", "A", "l", "p", "h", "a", "\n">>,
    \* 'X-3 ! Gamma': a tool id with a hyphen
    <<"X", "-", "3", " ", "!", " ", "G", "a", "m", "m", "a", "\n">>,
    \* 'X1 ! Beta': the tool id of Alpha under another common name
    <<"X", "1", " ", "!", " ", "B", "e", "t", "a", "\n">>,
    \* 'RO2 ! Pool': a tool id of the default list
    <<"R", "O", "2", " ", "!", " ", "P", "o", "o", "l", "\n">>
  }

\* lines of the reaction block (parse_reactions)
BlockLinePool ==
  {
    \* 'R) 1 2 ;A = B'
    <<"R", ")", " ", "1", " ", "2", " ", ";", "A", " ", "=", " ", "B", "\n">>,
    \* '  R) 3 ;#C = D ': indented, with a '#'
    <<" ", " ", "R", ")", " ", "3", " ", ";", "#", "C", " ", "=", " ", "D",
      " ", "\n">>,
    \* '  + E #': a continuation line
    <<" ", " ", "+", " ", "E", " ", "#", "\n">>,
    \* '': an empty line
    <<"\n">>
  }

\* lines of a baseline mechanism file (load_ref_rxns)
RefLinePool ==
  {
    \* Rnames{1} = 'A-B=C';
    <<"R", "n", "a", "m", "e", "s", "{", "1", "}", " ", "=", " ", "'", "A",
      "-", "B", "=", "C", "'", ";", "\n">>,
    \* Rnames{2} = ' B + HV = D';
    <<"R", "n", "a", "m", "e", "s", "{", "2", "}", " ", "=", " ", "'", " ",
      "B", " ", "+", " ", "H", "V", " ", "=", " ", "D", "'", ";", "\n">>,
    \* k(:,i) = 1;
    <<"k", "(", ":", ",", "i", ")", " ", "=", " ", "1", ";", "\n">>,
    \* '  Rnames{3} = 'Q=R';': indented
    <<" ", " ", "R", "n", "a", "m", "e", "s", "{", "3", "}", " ", "=", " ",
      "'", "Q", "=", "R", "'", ";", "\n">>,
    \* Rnames{4}='X=Y';: no blank around '='
    <<"R", "n", "a", "m", "e", "s", "{", "4", "}", "=", "'", "X", "=", "Y",
      "'", ";", "\n">>
  }

\* '.ACT', a species section, '.RXN' and one reaction
SectionFiles ==
  {<<Append(ACT, "\n")>> \o sec \o <<Append(RXN, "\n"), Append(Rec_Valid, "\n")>> :
     sec \in SeqsUpTo(SpeciesLinePool, MaxSection)}

\* the sections .STS and .ACT, in either order, closed by '.RXN'
BuildFiles ==
  {<<Append(STS, "\n")>> \o pair[1] \o <<Append(ACT, "\n")>> \o pair[2]
     \o <<Append(RXN, "\n")>> :
     pair \in SeqsUpTo(BuildLinePool, MaxPart) \X SeqsUpTo(BuildLinePool, MaxPart)}
  \cup
  {<<Append(ACT, "\n")>> \o pair[2] \o <<Append(STS, "\n")>> \o pair[1]
     \o <<Append(RXN, "\n")>> :
     pair \in SeqsUpTo(BuildLinePool, MaxPart) \X SeqsUpTo(BuildLinePool, MaxPart)}

\* a reaction block after '.RXN', open to the end of the file or closed by
\* '.' with a line behind it; and the same lines without '.RXN'
BlockFiles ==
  {part[1] \o part[2] \o part[3] :
     part \in {<<>>, <<Append(RXN, "\n")>>}
              \X SeqsUpTo(BlockLinePool, MaxBlock)
              \X {<<>>, <<<<".", "\n">>, Append(Rec_Valid, "\n")>>}}

RefFiles == SeqsUpTo(RefLinePool, MaxRef)

\* default_compounds: none, or RO2 and X_3
DefaultsPool == {<<>>, <<RO2, <<"X", "_", "3">>>>}

\* nothing has been called
NoCall == FmtIdle /\ CleanIdle /\ RateIdle /\ FileIdle /\ WriteIdle

\* the function fn read the file f and returned (or raised) r
FileCall(fn, f, marker, defaults, r) ==
  /\ file_fn' = fn
  /\ file_lines' = f
  /\ string_start' = marker
  /\ default_compounds' = defaults
  /\ file_result' = r
  /\ UNCHANGED <<fmtVars, cleanVars, rateVars, writeVars>>

\* extract_species(file, '.ACT' or '.STS', '.RXN')
ExtractSpecies ==
  /\ file_fn = "none"
  /\ \E f \in SectionFiles, marker \in {ACT, STS} :
       FileCall("extract_species", f, marker, <<>>, extract_species(f, marker, RXN))

BuildCompounds ==
  /\ file_fn = "none"
  /\ \E f \in BuildFiles, defaults \in DefaultsPool :
       FileCall("build_compounds", f, <<>>, defaults, build_compounds(f, defaults))

ParseReactions ==
  /\ file_fn = "none"
  /\ \E f \in BlockFiles :
       FileCall("parse_reactions", f, <<>>, <<>>, parse_reactions(f))

LoadRefRxns ==
  /\ file_fn = "none"
  /\ \E f \in RefFiles :
       FileCall("load_ref_rxns", f, <<>>, <<>>, load_ref_rxns(f))

NextFile == ExtractSpecies \/ BuildCompounds \/ ParseReactions \/ LoadRefRxns

SpecFile == NoCall /\ [][NextFile]_vars

----------------------------------------------------------------------------
(* One call of write_mech.                                                 *)

\* compounds of the runs: RO2 (a key of the table) and XRO2 (no key)
WriteCompoundPool == {RO2, <<"X", "R", "O", "2">>}

\* the declaration line of a block for the reactant c: Gstr{i,1} = 'c';
GstrLine(c) ==
  <<"G", "s", "t", "r", "{", "i", ",", "1", "}", " ", "=", " ", "'">> \o c
    \o <<"'", ";", " ">>

\* reaction blocks of the runs, cut down to one line: the radical-pool line
\* 'fRO2(i) = fRO2(i) + 1.0;' and the declarations of RO2, XRO2 and SumRO2
WriteBlockPool ==
  {<<"f", "R", "O", "2", "(", "i", ")", " ", "=", " ", "f", "R", "O", "2",
     "(", "i", ")", " ", "+", " ", "1", ".", "0", ";">>,
   GstrLine(RO2),
   GstrLine(<<"X", "R", "O", "2">>),
   GstrLine(<<"S", "u", "m", "R", "O", "2">>)}

\* compounds and reaction blocks of one call
MaxWritten == 7
MaxBlocks == 1

\* write_mech(f, compounds_list, reaction_blocks, name_replacements,
\* TARGET_REACTANT, TARGET_MINYLD)
WriteMech ==
  /\ write_pc = "open"
  /\ \E clist \in SeqsUpTo(WriteCompoundPool, MaxWritten),
        rlist \in SeqsUpTo(WriteBlockPool, MaxBlocks),
        table \in {NAME_REPLACEMENTS, <<>>} :
       /\ compounds_list' = clist
       /\ reaction_blocks' = rlist
       /\ name_replacements' = table
       /\ written' = write_mech(clist, rlist, table, ISOPRENE, MinYld)
  /\ write_pc' = "written"
  /\ UNCHANGED <<fmtVars, cleanVars, rateVars, fileVars>>

SpecWrite == NoCall /\ [][WriteMech]_vars

----------------------------------------------------------------------------
(* format_for_f0am as a function of its record list, for comparing runs.   *)

\* the outcome of format_for_f0am(gen, precursor, compounds, recs, para_soa,
\* radical_cutoff, reference_reactions): pc "returned" with the blocks and
\* names_PF, or pc "raised"
FormatRun(mode, soa, cutoff, refs, recs) ==
  LET RECURSIVE F(_, _, _, _)
      Step(k, idx, blocks, names, c) ==
        IF c.kind = "skip" THEN F(k + 1, idx, blocks, names)
        ELSE IF c.kind = "raise"
          THEN [pc |-> "raised", formatted |-> <<>>, names |-> <<>>]
        ELSE F(k + 1, idx + 1, Append(blocks, c.block), c.names)
      F(k, idx, blocks, names) ==
        IF k > Len(recs)
        THEN [pc |-> "returned", formatted |-> blocks, names |-> names]
        ELSE Step(k, idx, blocks, names,
                  LoopBody[mode, soa, cutoff, refs, recs[k], idx, names])
  IN F(1, 1, <<>>, <<>>)

\* the texts of a list of blocks
Texts(blocks) == [k \in 1..Len(blocks) |-> BlockText(blocks[k])]

----------------------------------------------------------------------------
(* Claims about format_for_f0am (specification Spec).                      *)

\* the records consumed so far that were emitted
Emitted == {k \in 1..Len(outcomes) : outcomes[k] = "emit"}

\* C1: the blocks of format_for_f0am carry the header indices 1, 2, ..., N
\* in output order, N being the number of records that passed all filters:
\* the k-th block has index k and a skipped record consumes no index.
C1_DenseIndices ==
  /\ Len(formatted_reactions) = Cardinality(Emitted)
  /\ \A k \in 1..Len(formatted_reactions) : formatted_reactions[k].index = k

\* a returned run that emitted, skipped an undefined reactant, and emitted
C1_Witness ==
  /\ pc = "returned"
  /\ outcomes = <<"emit", "skip", "emit">>
  /\ reactions[2] = Rec_Undefined
  /\ formatted_reactions[2].index = 2

\* C2 (as claimed): every species with a reactant or product stoichiometry
\* line f<species>(i) in an emitted block is a member of the compound list.
C2_SpeciesDeclared ==
  \A k \in 1..Len(formatted_reactions) :
    \A j \in 1..Len(formatted_reactions[k].f_lines) :
      LET fl == formatted_reactions[k].f_lines[j]
      IN fl.kind \in {"reactant", "product"} => InList(fl.sp, compounds)

\* C3 (as claimed): every per-record condition is soft; format_for_f0am
\* never raises, whatever the records and the configuration.
C3_NeverRaises == pc # "raised"

\* a record with a ';' clause delimiter
HasDelimiter(r) == \E k \in 1..Len(r) : r[k] = ";"

\* C4: a record without ';' is skipped and does not abort the run, and the
\* outcome of the run (the block texts with their indices, names_PF, or the
\* exception of another record) is the outcome of the run on the list
\* without the delimiter-less records.
C4_NoDelimiterDropped ==
  /\ \A k \in 1..Len(outcomes) :
       ~HasDelimiter(reactions[k]) => outcomes[k] = "skip"
  /\ pc \in {"returned", "raised"} =>
       \A other \in {FormatRun(gen, para_soa, radical_cutoff, reference_reactions,
                                SelectSeq(reactions, HasDelimiter))} :
          /\ other.pc = pc
          /\ pc = "returned" =>
               /\ Texts(other.formatted) = Texts(formatted_reactions)
               /\ other.names = names_PF

\* a returned run with blocks before and after a delimiter-less record
C4_Witness ==
  /\ pc = "returned"
  /\ outcomes = <<"emit", "skip", "emit">>
  /\ reactions[2] = Rec_NoDelim
  /\ formatted_reactions[2].index = 2

\* C5 (as claimed): in Single mode with precursor ISOPRENE and cutoff 2 the
\* record of ISOPRENEr3_x is excluded and the record of ISOPRENEr2_x is
\* retained; with a cutoff, a record of a listed radical whose last segment
\* carries the number n is skipped iff n exceeds the cutoff.
C5_CutoffExample ==
  \A k \in 1..Len(outcomes) :
    /\ (gen = "Single" /\ precursor = ISOPRENE /\ radical_cutoff = 2) =>
         /\ reactions[k] = Rec_Gen3x => outcomes[k] = "skip"
         /\ reactions[k] = Rec_Gen2x => outcomes[k] = "emit"
    /\ (gen = "Multi" /\ radical_cutoff = 2 /\ reference_reactions = {}) =>
         /\ reactions[k] = Rec_Rad3 => outcomes[k] = "skip"
         /\ reactions[k] = Rec_Rad1 => outcomes[k] = "emit"

----------------------------------------------------------------------------
(* Claims about clean_null_compounds (specification SpecClean).            *)

\* C6: clean_null_compounds is idempotent: a second call on the retained
\* list, with the same reaction texts, returns the retained list unchanged
\* in content and order, and an empty dropped list.
C6_Idempotent ==
  clean_pc = "recleaned" =>
    /\ refiltered_compounds = filtered_compounds
    /\ redropped_compounds = <<>>

\* both passes made on ['A.B', 'B', 'A'] against 'A.B': the first pass
\* retained one compound and dropped two
C6_Witness ==
  /\ clean_pc = "recleaned"
  /\ compound_list = <<Name_AdotB, Name_B, Name_A>>
  /\ reaction_list = <<Text_AdotB>>
  /\ filtered_compounds = <<Name_AdotB>>
  /\ dropped_compounds = <<Name_B, Name_A>>
  /\ refiltered_compounds = <<Name_AdotB>>

\* name occurs in text between two word boundaries
WholeWord(name, text) ==
  \E q \in 0..(Len(text) - Len(name)) :
    /\ Boundary(text, q)
    /\ SubSeq(text, q + 1, q + Len(name)) = name
    /\ Boundary(text, q + Len(name))

\* C7 (as claimed): a compound is retained iff its name occurs as a whole
\* word in the space-joined reaction texts, whatever the other names of the
\* list and their order; retained and dropped are disjoint, cover the list
\* and keep its order.
C7_WholeWordIff ==
  clean_pc \in {"cleaned", "recleaned"} =>
    /\ \A k \in 1..Len(compound_list) :
         InList(compound_list[k], filtered_compounds)
           <=> WholeWord(compound_list[k], Join(reaction_list, " "))
    /\ filtered_compounds =
         SelectSeq(compound_list, LAMBDA c : InList(c, filtered_compounds))
    /\ dropped_compounds =
         SelectSeq(compound_list, LAMBDA c : ~InList(c, filtered_compounds))

----------------------------------------------------------------------------
(* Claims about format_rate and handle_photolysis (specification SpecRate). *)

\* the photolysis fragments of the pool: the product name after hyphen
\* normalisation and alias rewriting, and the string format_rate returns
PhotolysisExpected ==
  {[frag |-> Frag_PhotoYield,
    name |->
      <<"I", "S", "O", "P">>,
    out  |->
      <<"J", "I", "S", "O", "P", " ", "*", " ", "0", ".", "5">>],
   [frag |-> Frag_Photo,
    name |->
      <<"I", "S", "O", "P">>,
    out  |->
      <<"J", "I", "S", "O", "P">>],
   [frag |-> Frag_PhotoAlias,
    name |->
      <<"C", "2", "C", "H", "O">>,
    out  |->
      <<"J", "C", "2", "C", "H", "O", " ", "*", " ", "1", "e", "-", "2">>],
   [frag |-> Frag_PhotoHyphen,
    name |->
      <<"A", "_", "B">>,
    out  |->
      <<"J", "A", "_", "B">>]}

\* the photolysis names of the fragments log, each once, in the order in
\* which they were first seen
FirstSeenNames(log) ==
  LET RECURSIVE Seen(_, _)
      Add(k, acc, E) ==
        Seen(k + 1,
             IF E = {} THEN acc
             ELSE IF \E e \in E : InList(e.name, acc) THEN acc
             ELSE Append(acc, (CHOOSE e \in E : TRUE).name))
      Seen(k, acc) ==
        IF k > Len(log) THEN acc
        ELSE Add(k, acc, {e \in PhotolysisExpected : e.frag = log[k]})
  IN Seen(1, <<>>)

\* C8: a fragment with PF=<name> (and optionally QY=<number>) is returned
\* as 'J' + name, or 'J' + name + ' * ' + yield, name being hyphen-normalised
\* and alias-rewritten (PF=ISOP QY=0.5 gives JISOP * 0.5); over the calls
\* that share one list the list only grows at its end, holds no name twice
\* and lists the names in the order in which they were first seen.
C8_PhotolysisAccumulator ==
  /\ \A e \in PhotolysisExpected :
       (call_log # <<>> /\ fragment = e.frag) => returned = e.out
  /\ StartsWith(accumulator, accumulator_before)
  /\ \A j, k \in 1..Len(accumulator) :
       accumulator[j] = accumulator[k] => j = k
  /\ accumulator = FirstSeenNames(call_log)

\* ISOP is seen, then A_B, then ISOP again: the list holds ISOP once
C8_Witness ==
  /\ call_log = <<Frag_PhotoYield, Frag_PhotoHyphen, Frag_Photo>>
  /\ accumulator = FirstSeenNames(<<Frag_PhotoYield, Frag_PhotoHyphen>>)
  /\ Len(accumulator) = 2
  /\ accumulator_before = accumulator
  /\ returned =
    <<"J", "I", "S", "O", "P">>

\* the parts of the three-token result around B
TrefClaimedOpen ==
  <<" ", ".", "*", " ", "(", "T", "/">>

TrefClaimedClose ==
  <<")", "^">>

\* rate_str without PF= whose tokens are toks, the first two numeric
NumericTokens(f, toks) ==
  /\ ~Contains(f, PFMarker)
  /\ Len(toks) \in {2, 3}
  /\ ParseFloat(toks[1]).ok
  /\ ParseFloat(toks[2]).ok

\* the result of format_rate for the two-token fragment 'A E'
TwoTokenResult(toks) == format_rate(toks[1] \o <<" ">> \o toks[2], <<>>).ret

\* C9 (amended): for two numeric tokens 'A E' format_rate returns
\* repr(A) + ' .* exp(' + E/R with 4 decimals + './T)', R = -0.001987204258640,
\* so that '1.5E-12 -1.0' yields '1.5e-12 .* exp(503.2195./T)'; for three
\* tokens 'A E B' the result is the two-token result followed by
\* ' .* (T./300).^' and B as literal text.
C9_ArrheniusFormat ==
  call_log # <<>> =>
    /\ fragment = Frag_Arr2 =>
         returned =
           <<"1", ".", "5", "e", "-", "1", "2", " ", ".", "*", " ", "e",
             "x", "p", "(", "5", "0", "3", ".", "2", "1", "9", "5", ".",
             "/", "T", ")">>
    /\ fragment = Frag_Arr3Neg =>
         returned =
           <<"2", ".", "0", " ", ".", "*", " ", "e", "x", "p", "(", "-",
             "2", "5", "1", ".", "6", "0", "9", "8", ".", "/", "T", ")",
             " ", ".", "*", " ", "(", "T", ".", "/", "3", "0", "0", ")",
             ".", "^", "-", "1", ".", "5">>
    /\ \A toks \in {SplitWS(fragment)} :
         (NumericTokens(fragment, toks) /\ Len(toks) = 3) =>
           returned = TwoTokenResult(toks) \o TrefOpen \o NatStr(TREF)
                        \o TrefClose \o toks[3]

\* the two-token and the three-token fragment translated one after the other
C9_Witness ==
  /\ call_log = <<Frag_Arr2, Frag_Arr3>>
  /\ fragment = Frag_Arr3
  /\ returned =
    <<"1", ".", "5", "e", "-", "1", "2", " ", ".", "*", " ", "e", "x", "p",
      "(", "5", "0", "3", ".", "2", "1", "9", "5", ".", "/", "T", ")", " ",
      ".", "*", " ", "(", "T", ".", "/", "3", "0", "0", ")", ".", "^", "2">>

\* C9 (as claimed): '1.5E-12 -1.0' yields '1.5e-12 .* exp(503.2332./T)', and
\* three tokens 'A E B' yield the two-token result followed by
\* ' .* (T/300)^B'.
C9_AsClaimed ==
  call_log # <<>> =>
    /\ fragment = Frag_Arr2 =>
         returned =
           <<"1", ".", "5", "e", "-", "1", "2", " ", ".", "*", " ", "e",
             "x", "p", "(", "5", "0", "3", ".", "2", "3", "3", "2", ".",
             "/", "T", ")">>
    /\ \A toks \in {SplitWS(fragment)} :
         (NumericTokens(fragment, toks) /\ Len(toks) = 3) =>
           returned = TwoTokenResult(toks) \o TrefClaimedOpen \o NatStr(TREF)
                        \o TrefClaimedClose \o toks[3]

\* C10: a fragment without PF= that is not a 2- or 3-token form with numeric
\* first two tokens (wrong token count, A or E not a number) is returned
\* character for character, and the shared list is left as it was; float()'s
\* ValueError is caught inside format_rate, which has no other way to raise.
C10_FallbackUnchanged ==
  (/\ call_log # <<>>
   /\ ~Contains(fragment, PFMarker)
   /\ ~NumericTokens(fragment, SplitWS(fragment))) =>
    /\ returned = fragment
    /\ accumulator = accumulator_before

\* '1  x' (two blanks) comes back unchanged after ISOP was registered
C10_Witness ==
  /\ call_log = <<Frag_PhotoYield, Frag_BadE>>
  /\ returned = Frag_BadE
  /\ Len(accumulator) = 1
  /\ accumulator_before = accumulator

----------------------------------------------------------------------------
(* Claims about the functions that read a file (specification SpecFile).   *)

\* the well-formed Rnames lines of the pool and their reactant side
RefExpected ==
  {[line |-> <<"R", "n", "a", "m", "e", "s", "{", "1", "}", " ", "=", " ", "'",
            "A", "-", "B", "=", "C", "'", ";", "\n">>,
    frag |-> <<"A", "_", "B">>],
   [line |-> <<"R", "n", "a", "m", "e", "s", "{", "2", "}", " ", "=", " ", "'",
            " ", "B", " ", "+", " ", "H", "V", " ", "=", " ", "D", "'", ";",
            "\n">>,
    frag |-> <<"B", " ", "+", " ", "H", "V">>]}

\* C11: load_ref_rxns returns the reactant sides of the baseline file: for
\* every line Rnames{<idx>} = '<equation>'; the text left of the first '=',
\* hyphens replaced by underscores and trimmed, is in the set (the line
\* Rnames{1} = 'A-B=C'; gives A_B); a file of such lines and of lines that
\* do not start with 'Rnames{' gives exactly these, the other lines nothing.
C11_ReferenceSet ==
  file_fn = "load_ref_rxns" =>
    /\ \A e \in RefExpected : InList(e.line, file_lines) => e.frag \in file_result
    /\ (\A k \in 1..Len(file_lines) :
          \/ ~StartsWith(file_lines[k], RnamesOpen)
          \/ \E e \in RefExpected : e.line = file_lines[k])
       => file_result = {e.frag : e \in {x \in RefExpected : InList(x.line, file_lines)}}

\* Rnames{1} = 'A-B=C'; and an indented Rnames line: the set is {A_B}
C11_Witness ==
  /\ file_fn = "load_ref_rxns"
  /\ file_lines = <<<<"R", "n", "a", "m", "e", "s", "{", "1", "}", " ", "=",
                     " ", "'", "A", "-", "B", "=", "C", "'", ";", "\n">>,
                   <<" ", " ", "R", "n", "a", "m", "e", "s", "{", "3", "}",
                     " ", "=", " ", "'", "Q", "=", "R", "'", ";", "\n">>>>
  /\ file_result = {<<"A", "_", "B">>}

\* the data lines of the species pool: common name and tool id
SpeciesExpected ==
  {[line |-> <<"X", "1", " ", "a", " ", "!", " ", "A", "l", "p", "h", "a",
            "\n">>,
    name |-> <<"A", "l", "p", "h", "a">>, id |-> <<"X", "1">>],
   [line |-> <<"X", "2", " ", "!", " ", "t", "w", "o", " ", "w", "o", "r", "d",
            "s", " ", "B", "e", "t", "a", "\n">>,
    name |-> <<"B", "e", "t", "a">>, id |-> <<"X", "2">>],
   [line |-> <<"X", "9", " ", "!", " ", "A", "l", "p", "h", "a", "\n">>,
    name |-> <<"A", "l", "p", "h", "a">>, id |-> <<"X", "9">>],
   [line |-> <<"X", "7", " ", "!", " ", "\n">>,
    name |-> <<>>, id |-> <<"X", "7">>]}

\* the entries of the data lines among lines, in order, the first one of
\* every common name only
DataEntries(lines) ==
  LET Of(line) == CHOOSE e \in SpeciesExpected : e.line = line
      Row(e) == [Species |-> e.name, MGName |-> e.id]
      Firsts(all) ==
        SelectSeq([k \in 1..Len(all) |-> k],
                  LAMBDA k : \A j \in 1..(k - 1) : all[j].name # all[k].name)
      Kept(all, keep) == [j \in 1..Len(keep) |-> Row(all[keep[j]])]
      Entries(all) == Kept(all, Firsts(all))
      Data(sel) == Entries([k \in 1..Len(sel) |-> Of(sel[k])])
  IN Data(SelectSeq(lines, LAMBDA l : \E e \in SpeciesExpected : e.line = l))

\* the lines of file_lines strictly between the start marker and '.RXN'
SectionLines ==
  LET At(text) == CHOOSE k \in 1..Len(file_lines) : file_lines[k] = Append(text, "\n")
  IN SubSeq(file_lines, At(string_start) + 1, At(RXN) - 1)

\* C12: for the lines strictly between the marker lines extract_species
\* returns one (common name, tool id) entry per data line, in order, none
\* for a line whose first token starts with '!' or '.', and of the entries
\* with one common name the first only; a section of '! note', '. cont' and
\* two data lines with distinct names yields exactly two entries.
C12_SectionEntries ==
  (file_fn = "extract_species" /\ string_start = ACT) =>
    /\ (\A k \in 1..Len(file_lines) : file_lines[k] # <<"\n">>) =>
         /\ file_result.kind = "ok"
         /\ file_result.rows = DataEntries(SectionLines)
    /\ (/\ Len(SectionLines) = 4
        /\ \A l \in {<<"X", "1", " ", "a", " ", "!", " ", "A", "l", "p", "h", "a",
            "\n">>,
                     <<"X", "2", " ", "!", " ", "t", "w", "o", " ", "w", "o", "r", "d",
            "s", " ", "B", "e", "t", "a", "\n">>,
                     <<"!", " ", "n", "o", "t", "e", "\n">>,
                     <<".", " ", "c", "o", "n", "t", "\n">>} : InList(l, SectionLines))
       => Len(file_result.rows) = 2

\* '! note', a data line, '. cont', a data line: two entries
C12_Witness ==
  /\ file_fn = "extract_species" /\ string_start = ACT
  /\ SectionLines = <<<<"!", " ", "n", "o", "t", "e", "\n">>,
                      <<"X", "1", " ", "a", " ", "!", " ", "A", "l", "p", "h", "a",
            "\n">>,
                      <<".", " ", "c", "o", "n", "t", "\n">>,
                      <<"X", "2", " ", "!", " ", "t", "w", "o", " ", "w", "o", "r", "d",
            "s", " ", "B", "e", "t", "a", "\n">>>>
  /\ file_result.rows = <<[Species |-> <<"A", "l", "p", "h", "a">>, MGName |-> <<"X", "1">>],
                          [Species |-> <<"B", "e", "t", "a">>, MGName |-> <<"X", "2">>]>>

\* C13 (as claimed): extract_species returns no entry with an empty common
\* name: a data line whose text after the first '!' is empty or ends in a
\* blank contributes nothing.
C13_NoEmptyName ==
  (file_fn = "extract_species" /\ file_result.kind = "ok") =>
    \A k \in 1..Len(file_result.rows) : file_result.rows[k].Species # <<>>


\* the lines of the compound sections: common name and tool id
BuildExpected ==
  {[line |-> <<"X", "1", " ", "!", " ", "A", "l", "p", "h", "a", "\n">>,
    name |-> <<"A", "l", "p", "h", "a">>, id |-> <<"X", "1">>],
   [line |-> <<"X", "-", "3", " ", "!", " ", "G", "a", "m", "m", "a", "\n">>,
    name |-> <<"G", "a", "m", "m", "a">>, id |-> <<"X", "-", "3">>],
   [line |-> <<"X", "1", " ", "!", " ", "B", "e", "t", "a", "\n">>,
    name |-> <<"B", "e", "t", "a">>, id |-> <<"X", "1">>],
   [line |-> <<"R", "O", "2", " ", "!", " ", "P", "o", "o", "l", "\n">>,
    name |-> <<"P", "o", "o", "l">>, id |-> <<"R", "O", "2">>]}

\* the tool ids of the entries of the section that runs from the marker line
\* to '.RXN' in lines: the first line of every common name, in order
SectionIds(lines, marker) ==
  LET At(text) == CHOOSE k \in 1..Len(lines) : lines[k] = Append(text, "\n")
      Of(line) == CHOOSE e \in BuildExpected : e.line = line
      Firsts(all) ==
        SelectSeq([k \in 1..Len(all) |-> k],
                  LAMBDA k : \A j \in 1..(k - 1) : Of(all[j]).name # Of(all[k]).name)
      Ids(all, keep) == [j \in 1..Len(keep) |-> Of(all[keep[j]]).id]
      Entries(all) == Ids(all, Firsts(all))
  IN Entries(SelectSeq(SubSeq(lines, At(marker) + 1, At(RXN) - 1),
                       LAMBDA l : \E e \in BuildExpected : e.line = l))

\* every '-' of every name replaced by '_'
Underscored(names) == [k \in 1..Len(names) |-> ReplaceChar(names[k], "-", "_")]

\* C14: the full list of build_compounds is the defaults, then the active
\* entries that are in neither the defaults nor the steady-state list, in
\* section order, then the steady-state entries in section order, with every
\* '-' of every name replaced by '_'.
C14_FullList ==
  file_fn = "build_compounds" =>
    /\ file_result.kind = "ok"
    /\ file_result.compounds_sts = SectionIds(file_lines, STS)
    /\ file_result.compounds_total =
         Underscored(default_compounds
                     \o SelectSeq(SectionIds(file_lines, ACT),
                                  LAMBDA c : /\ ~InList(c, default_compounds)
                                             /\ ~InList(c, SectionIds(file_lines, STS)))
                     \o SectionIds(file_lines, STS))

\* steady-state X-3, active RO2 (a default), X1 and X-3 (steady-state),
\* defaults RO2 and X_3: the list is RO2, X_3, X1, X_3
C14_Witness ==
  /\ file_fn = "build_compounds"
  /\ default_compounds = <<RO2, <<"X", "_", "3">>>>
  /\ file_lines = <<<<".", "A", "C", "T", "\n">>,
                   <<"R", "O", "2", " ", "!", " ", "P", "o", "o", "l", "\n">>,
                   <<"X", "1", " ", "!", " ", "B", "e", "t", "a", "\n">>,
                   <<".", "S", "T", "S", "\n">>,
                   <<"X", "-", "3", " ", "!", " ", "G", "a", "m", "m", "a",
                     "\n">>,
                   <<".", "R", "X", "N", "\n">>>>
  /\ file_result.compounds_total = <<RO2, <<"X", "_", "3">>, <<"X", "1">>, <<"X", "_", "3">>>>

\* C15: the master compound list of build_compounds holds no name twice, for
\* every file and every duplicate-free defaults list: across the defaults,
\* the active and the steady-state part, after the hyphens were replaced,
\* and when two section lines give one tool id under two common names.
C15_NoNameTwice ==
  (file_fn = "build_compounds" /\ file_result.kind = "ok") =>
    \A j, k \in 1..Len(file_result.compounds_total) :
      file_result.compounds_total[j] = file_result.compounds_total[k] => j = k

\* what line 141 leaves of the lines of the reaction block
BlockExpected ==
  {[line |-> <<"R", ")", " ", "1", " ", "2", " ", ";", "A", " ", "=", " ",
              "B", "\n">>,
    text |-> <<"R", ")", " ", "1", " ", "2", " ", ";", "A", " ", "=", " ",
              "B">>],
   [line |-> <<" ", " ", "R", ")", " ", "3", " ", ";", "#", "C", " ", "=",
              " ", "D", " ", "\n">>,
    text |-> <<"R", ")", " ", "3", " ", ";", "C", " ", "=", " ", "D">>],
   [line |-> <<" ", " ", "+", " ", "E", " ", "#", "\n">>,
    text |-> <<"+", " ", "E", " ">>],
   [line |-> <<"\n">>, text |-> <<>>]}

\* one record per line of block that begins with 'R)': that line and the
\* lines behind it up to the next such line, joined by single spaces
RecordsOf(block) ==
  LET Text(line) == (CHOOSE e \in BlockExpected : e.line = line).text
      Starts(texts) ==
        SelectSeq([k \in 1..Len(texts) |-> k], LAMBDA k : StartsWith(texts[k], RMarker))
      Until(texts, starts, j) ==
        IF j = Len(starts) THEN Len(texts) ELSE starts[j + 1] - 1
      Records(texts, starts) ==
        [j \in 1..Len(starts) |->
           Join(SubSeq(texts, starts[j], Until(texts, starts, j)), " ")]
      All(texts) == Records(texts, Starts(texts))
  IN All([k \in 1..Len(block) |-> Text(block[k])])

\* the lines behind '.RXN' up to the first line '.' behind it, or to the end
BlockOf(lines) ==
  LET At(text) == CHOOSE k \in 1..Len(lines) : lines[k] = Append(text, "\n")
      Dots(from) == {k \in (from + 1)..Len(lines) : lines[k] = <<".", "\n">>}
      Last(from) ==
        IF Dots(from) = {} THEN Len(lines)
        ELSE (CHOOSE k \in Dots(from) : \A j \in Dots(from) : k <= j) - 1
      Cut(from) == SubSeq(lines, from + 1, Last(from))
  IN Cut(At(RXN))

\* C16: parse_reactions returns, in file order, exactly one record per line
\* of the reaction block that begins with 'R)' after trimming and removing
\* '#': that line followed by the text of the lines up to the next 'R)'
\* line, joined by single spaces, the last record included; without a line
\* '.' behind '.RXN' the block runs to the end of the file without error.
C16_OneRecordPerMarker ==
  (file_fn = "parse_reactions" /\ InList(Append(RXN, "\n"), file_lines)) =>
    /\ file_result.kind = "ok"
    /\ file_result.reactions = RecordsOf(BlockOf(file_lines))


----------------------------------------------------------------------------
(* Claims about the stoichiometry lines of format_for_f0am (Spec).         *)

\* the entries of f_lines written by line 341 and by line 359
PoolMinus == [kind |-> "pool", sp |-> RO2, sign |-> "-", amt |-> <<"1">>]
PoolPlus(milli) ==
  [kind |-> "pool", sp |-> RO2, sign |-> "+", amt |-> FloatRepr(MilliFloat(milli))]

\* the reactant lines of block b whose species matches the radical-pool prefix
RadicalReactants(b) ==
  {k \in 1..Len(b.f_lines) :
     /\ b.f_lines[k].kind = "reactant"
     /\ StartsWith(b.f_lines[k].sp, RadicalStart(gen, precursor))}

\* the sum of the yields of the product lines of block b whose species
\* matches the radical-pool prefix, in thousandths
RadicalYield(b) ==
  LET Amount(fl) ==
        IF fl.kind = "product" /\ StartsWith(fl.sp, RadicalStart(gen, precursor))
        THEN YieldMilli(ParseFloat(fl.amt)) ELSE 0
      RECURSIVE F(_)
      F(k) == IF k > Len(b.f_lines) THEN 0 ELSE Amount(b.f_lines[k]) + F(k + 1)
  IN F(1)

\* C17 (as claimed): an emitted block has an fRO2 line only if the net
\* radical-pool change of its reaction, the sum of the yields of the products
\* matching the radical-pool prefix minus the number of the reactants
\* matching it, is positive.
C17_OnlyIfNetPositive ==
  \A k \in 1..Len(formatted_reactions) :
    (\E j \in 1..Len(formatted_reactions[k].f_lines) :
        formatted_reactions[k].f_lines[j].kind = "pool")
    => RadicalYield(formatted_reactions[k])
         - 1000 * Cardinality(RadicalReactants(formatted_reactions[k])) > 0

\* C17 (amended): in every emitted block every reactant matching the
\* radical-pool prefix has the line fRO2(i) = fRO2(i) - 1; behind its own
\* line, and the block ends with one line fRO2(i) = fRO2(i) + n; exactly when
\* n, the sum of the yields of the products matching the prefix, is positive;
\* the block has no other radical-pool line.
C17_PoolLines ==
  \A k \in 1..Len(formatted_reactions) :
    LET fl == formatted_reactions[k].f_lines
        n  == RadicalYield(formatted_reactions[k])
        radicals == RadicalReactants(formatted_reactions[k])
    IN /\ \A j \in radicals : j < Len(fl) /\ fl[j + 1] = PoolMinus
       /\ n > 0 => fl[Len(fl)] = PoolPlus(n)
       /\ \A j \in 1..Len(fl) :
            fl[j].kind = "pool" =>
              \/ fl[j] = PoolMinus /\ (j - 1) \in radicals
              \/ fl[j] = PoolPlus(n) /\ j = Len(fl) /\ n > 0

\* RAD_1 = 0.5 RAD_3 + 0.25 RAD_1 + A in a Multi run: the block has the lines
\* fRO2 - 1 and fRO2 + 0.75 although the net change is -0.25
C17_Witness ==
  /\ gen = "Multi"
  /\ Len(formatted_reactions) >= 1
  /\ reactions[1] = Rec_Rad1
  /\ outcomes[1] = "emit"
  /\ formatted_reactions[1].f_lines[2] = PoolMinus
  /\ formatted_reactions[1].f_lines[6] =
       [kind |-> "pool", sp |-> RO2, sign |-> "+", amt |-> <<"0", ".", "7", "5">>]
  /\ Len(formatted_reactions[1].f_lines) = 6

\* C18 (as claimed): with para_soa off no emitted block has a stoichiometry
\* line for a species whose name starts with 'VBS', reactant or product,
\* while the species stays in the equation text; with para_soa on such a
\* species has the lines of any other species.
C18_NoReservedLines ==
  ~para_soa =>
    \A k \in 1..Len(formatted_reactions) :
      \A j \in 1..Len(formatted_reactions[k].f_lines) :
        ~StartsWith(formatted_reactions[k].f_lines[j].sp, VBS)


----------------------------------------------------------------------------
(* Claims about write_mech (SpecWrite).                                    *)

\* the position in written of the string text
WrittenAt(text) == CHOOSE k \in 1..Len(written) : written[k] = text

AddSpeciesLine == <<"\n", "A", "d", "d", "S", "p", "e", "c", "i", "e", "s", "\n", "\n">>

\* the lines written behind 'SpeciesToAdd = {...' and before 'AddSpecies'
SpeciesBlock == SubSeq(written, 4, WrittenAt(AddSpeciesLine) - 1)

\* the names between quotes of one line of the species block
QuotedNames(line) ==
  LET Names(parts) == [j \in 1..((Len(parts) - 1) \div 2) |-> parts[2 * j]]
  IN Names(SplitOn(line, "'"))

\* the names of the species block, in the order written
SpeciesNames == Concat([k \in 1..Len(SpeciesBlock) |-> QuotedNames(SpeciesBlock[k])])

\* the name of compound c under the table: its entry, or c itself
TableName(table, c) ==
  IF \E k \in 1..Len(table) : table[k].old = c
  THEN table[CHOOSE k \in 1..Len(table) : table[k].old = c].new
  ELSE c

EndsWith(s, suffix) ==
  /\ Len(s) >= Len(suffix)
  /\ SubSeq(s, Len(s) - Len(suffix) + 1, Len(s)) = suffix

\* C19 (as claimed): for a compound list of any length, zero included,
\* write_mech writes every compound once, in list order, at most 6 per line,
\* in a species block opened by 'SpeciesToAdd = {...' and closed by a line
\* ending in ';};' before the 'AddSpecies' directive.
C19_SpeciesBlockClosed ==
  write_pc = "written" =>
    /\ written[3] = <<"S", "p", "e", "c", "i", "e", "s", "T", "o", "A", "d", "d",
                      " ", "=", " ", "{", ".", ".", ".", "\n">>
    /\ SpeciesNames =
         [k \in 1..Len(compounds_list) |-> TableName(name_replacements, compounds_list[k])]
    /\ \A k \in 1..Len(SpeciesBlock) :
         Len(QuotedNames(SpeciesBlock[k])) <= NUMBER_COMPOUND
    /\ EndsWith(written[WrittenAt(AddSpeciesLine) - 1], <<";", "}", ";", "\n">>)

\* the string written for reaction block k
WrittenBlock(k) == written[WrittenAt(AddSpeciesLine) + 1 + k]

\* one placeholder per table entry
Placeholders == <<"#1", "#2", "#3", "#4", "#5", "#6", "#7">>

\* the table applied to text entry by entry, the text an entry puts in
\* being closed to the entries behind it
AppliedOnce(table, text) ==
  LET RECURSIVE Mark(_, _)
      Mark(t, k) ==
        IF k > Len(table) THEN t
        ELSE Mark(Replace(t, table[k].old, <<Placeholders[k]>>), k + 1)
      Fill(c) ==
        IF \E k \in 1..Len(table) : Placeholders[k] = c
        THEN table[CHOOSE k \in 1..Len(table) : Placeholders[k] = c].new
        ELSE <<c>>
      Filled(t) == Concat([j \in 1..Len(t) |-> Fill(t[j])])
  IN Filled(Mark(text, 1))

\* C20 (as claimed): write_mech renames consistently: the name of a compound
\* in the species block is the name that its whole-word occurrences in a
\* reaction block have after the table was applied; a compound that is no
\* key of the table is unchanged in the reaction blocks even when a key is a
\* substring of it; and no entry rewrites text that an earlier entry put in.
C20_ConsistentRenaming ==
  write_pc = "written" =>
    /\ \A j \in 1..Len(compounds_list), k \in 1..Len(reaction_blocks) :
         reaction_blocks[k] = GstrLine(compounds_list[j])
         => WrittenBlock(k) = GstrLine(SpeciesNames[j]) \o <<"\n", "\n">>
    /\ \A c \in WriteCompoundPool, k \in 1..Len(reaction_blocks) :
         (reaction_blocks[k] = GstrLine(c) /\ TableName(name_replacements, c) = c)
         => WrittenBlock(k) = GstrLine(c) \o <<"\n", "\n">>
    /\ \A k \in 1..Len(reaction_blocks) :
         WrittenBlock(k) =
           AppliedOnce(name_replacements, reaction_blocks[k]) \o <<"\n", "\n">>


\* C21: every record returned by parse_reactions begins with 'R)' and holds
\* no '#', for every reaction block, the blocks included whose first lines
\* behind '.RXN' do not begin with 'R)' (blank lines, continuation lines):
\* such lines never form a record of their own.
C21_RecordsBeginWithMarker ==
  (file_fn = "parse_reactions" /\ file_result.kind = "ok") =>
    \A k \in 1..Len(file_result.reactions) :
      /\ StartsWith(file_result.reactions[k], RMarker)
      /\ \A j \in 1..Len(file_result.reactions[k]) : file_result.reactions[k][j] # "#"

====
